---- MODULE Spec2Model ----
(***************************************************************************)
(* Marker transport of the Stroop task: the publisher (ResilientOutlet,    *)
(* send_event_code, send_keepalive of the presentation script) and the     *)
(* subscriber (RobustStroopReceiver of lsl_receiver.py).                    *)
(*                                                                         *)
(* Publisher time is counted in whole seconds, relative to the events the  *)
(* code measures from: last_success_age is time.time() minus               *)
(* self.last_successful_send, and timer[t] is what is left of the sleep of *)
(* thread t.                                                               *)
(***************************************************************************)
EXTENDS Integers, Sequences, FiniteSets, TLC

\* ------------------------------------------------------------------ bounds
\* last_success_age saturates here: every age above RecoveryThreshold is
\* treated alike by the code.
MaxAge == 4
\* The largest max_attempts create_outlet is called with on its own.
MaxAttemptsArg == 4
\* The subscriber's clock stops here, and so many records are ingested.
MaxClock == 3
MaxRecords == 3
\* how far pylsl.local_clock() runs, in milliseconds
MaxNow == 2
\* how many samples are put on the wire
MaxWire == 5

\* -------------------------------------------------------- program constants
RecoveryThreshold == 3
Backoff == 1
DefaultMaxAttempts == 3
DefaultMaxRetries == 3
KeepaliveInterval == 5
\* self.pairing_window = 0.1 s, in ticks of 0.05 s
PairingWindow == 2

\* ---------------------------------------------------------------- payloads
\* A payload is the sequence of its characters.
CODE_PREFIX == <<"C", "O", "D", "E", "_">>
KEEPALIVE == <<"K", "E", "E", "P", "A", "L", "I", "V", "E">>
SYSTEM_INIT == <<"S", "Y", "S", "T", "E", "M", "_", "I", "N", "I", "T">>
NIRX_CONNECT == <<"N", "I", "R", "X", "_", "C", "O", "N", "N", "E", "C", "T">>
TRIAL_START_RED ==
    <<"t", "r", "i", "a", "l", "_", "s", "t", "a", "r", "t", "_", "r", "e", "d">>

Digit(d) == <<"0", "1", "2", "3", "4", "5", "6", "7", "8", "9">>[d + 1]

\* str(n), for n >= 0.
RECURSIVE Decimal(_)
Decimal(n) == IF n < 10 THEN <<Digit(n)>> ELSE Decimal(n \div 10) \o <<Digit(n % 10)>>

\* A tag without the padding: f"CODE_{code}".
CodeStrUnpadded(code) == CODE_PREFIX \o Decimal(code)

\* f"CODE_{code:03d}" for a code of at most three digits.
CodeStr(code) ==
    CODE_PREFIX \o <<Digit((code \div 100) % 10), Digit((code \div 10) % 10),
                     Digit(code % 10)>>

\* The send_event_code calls the foreground thread makes.
Events ==
    { [code |-> 900, description |-> SYSTEM_INIT],
      [code |-> 901, description |-> NIRX_CONNECT] }

NoEvent == [code |-> 0, description |-> <<>>]

Threads == {"fg", "hb"}

\* The frames that hold a timestamp: push_sample in each thread, and
\* send_event_code.
StampHolders == Threads \cup {"sec"}

VARIABLES
    outlet,            \* self.outlet: "None", "live", "broken" (its sends raise)
                       \* or "deleted" (del outlet.outlet: no such attribute)
    last_success_age,  \* time.time() - self.last_successful_send, saturating
    lock,              \* self.lock: "free" or the thread holding it
    env_ok,            \* from now on creation succeeds and no handle breaks
    pc,                \* the position of each thread
    timer,             \* what is left of each thread's sleep
    marker,            \* push_sample's marker_str, per thread
    ps_caller,         \* where push_sample returns to
    result,            \* push_sample's outcome: "true", "false", "raise", "none"
    time_since_last,   \* push_sample's local of line 87 (-1: not computed)
    ps_sends,          \* sends attempted in the current push_sample call
    ps_sent_ok,        \* a send succeeded in the current push_sample call
    ps_creates,        \* create_outlet invocations in the current push_sample call
    ps_recovered,      \* what create_outlet returned to push_sample at line 92
    co_ctx,            \* where create_outlet returns to
    max_attempts,      \* create_outlet's parameter
    attempt,           \* create_outlet's loop variable
    co_result,         \* create_outlet's return value: "true", "false", "none"
    co_tries,          \* StreamOutlet constructions in the current create_outlet call
    co_waits,          \* backoff sleeps in the current create_outlet call
    event,             \* the (code, description) of the running send_event_code
    sec_attempt,       \* send_event_code's loop variable
    sec_results,       \* what the push_sample calls of the running send_event_code returned
    success,           \* send_event_code's local success, which it returns
    wire,              \* the last two samples put on the wire, oldest first
    clock,             \* the subscriber's time.time(), in ticks of 0.05 s
    session_start,     \* self.session_start
    data,              \* self.data: the records, in append order
    pulled,            \* the samples pull_sample has returned, in order
    last_code,         \* self.last_code
    last_code_time,    \* self.last_code_time
    inbound,           \* the samples the inlet holds, oldest first
    rpc,               \* the position of the subscriber's run()
    inlet,             \* self.inlet: "None", "open", "faulted" or "closed"
    idle,              \* the last turn of the loop of run() was an empty pull
    conn_timeout,      \* connect_to_stream's parameter, in seconds
    conn_elapsed,      \* connect_to_stream's time.time() - start_time, in seconds
    saves,             \* how many times save_data has run
    csv,               \* the file of save_data: whether written, and its data rows
    summary,           \* the summary save_data printed
    log,               \* what the subscriber has done since it left its loop
    now,               \* pylsl.local_clock(), in milliseconds
    stamp,             \* push_sample's timestamp, per thread
    shutdown,          \* the steps of the script's shutdown sequence done so far
    gen                \* the locals of generate_block_sequence, and where it is

vars ==
    <<outlet, last_success_age, lock, env_ok, pc, timer, marker, ps_caller, result,
      time_since_last, ps_sends, ps_sent_ok, ps_creates, ps_recovered, co_ctx,
      max_attempts, attempt, co_result, co_tries, co_waits, event, sec_attempt, sec_results,
      success, wire, clock, session_start, data, pulled, last_code, last_code_time, inbound,
      rpc, inlet, idle, conn_timeout, conn_elapsed, saves, csv, summary, log, now,
      stamp, shutdown, gen>>

pubVars ==
    <<outlet, last_success_age, lock, env_ok, pc, timer, marker, ps_caller, result,
      time_since_last, ps_sends, ps_sent_ok, ps_creates, ps_recovered, co_ctx,
      max_attempts, attempt, co_result, co_tries, co_waits, event, sec_attempt,
      sec_results, success, wire, now, stamp, shutdown, gen>>
tsVars == <<now, stamp>>
runVars == <<inbound, rpc, inlet, idle, conn_timeout, conn_elapsed, saves, csv, summary, log>>
recvVars ==
    <<clock, session_start, data, pulled, last_code, last_code_time, inbound, rpc, inlet, idle,
      conn_timeout, conn_elapsed, saves, csv, summary, log>>

\* generate_block_sequence has not been called.
NotCalled ==
    [pc |-> "idle", remaining_stroop |-> <<>>, shuffled_stroop |-> <<>>,
     last_contrast |-> "None", contrast_counter |-> 0]

pubShared == <<outlet, last_success_age, lock, env_ok, wire>>
psLocals ==
    <<marker, ps_caller, result, time_since_last, ps_sends, ps_sent_ok, ps_creates,
      ps_recovered>>
coLocals == <<co_ctx, max_attempts, attempt, co_result, co_tries, co_waits>>
secLocals == <<event, sec_attempt, sec_results, success>>

Min(a, b) == IF a < b THEN a ELSE b

\* What the wire holds after sample m by thread t is put on it.
Sent(w, m, t) ==
    LET e == [payload |-> m, by |-> t]
    IN  IF Len(w) < 2 THEN Append(w, e) ELSE <<w[2], e>>

\* ------------------------------------------------------------------- Init
\* None, told apart from every string.
None == <<"None">>

\* RobustStroopReceiver.__init__, and connect_to_stream has found the stream:
\* the session starts now.
RecvInit ==
    /\ clock = 0
    /\ session_start = 0
    /\ data = <<>>
    /\ pulled = <<>>
    /\ last_code = None
    /\ last_code_time = 0

\* timestamp=None
NoStamp == -1

\* No summary has been printed.
NoSummary == [printed |-> FALSE, trials |-> 0, responses |-> 0, accuracy |-> <<>>]

\* No file has been written.
NoFile == [written |-> FALSE, rows |-> <<>>]

\* run() is in its loop, about to pull from the inlet connect_to_stream made.
InLoop ==
    /\ rpc = "pull"
    /\ inlet = "open"
    /\ idle = FALSE
    /\ conn_timeout = 0
    /\ conn_elapsed = 0
    /\ saves = 0
    /\ csv = NoFile
    /\ summary = NoSummary
    /\ log = <<>>

\* ResilientOutlet.__init__ up to its call of create_outlet; the heartbeat
\* thread is not started yet.
PubInit ==
    /\ outlet = "None"
    /\ last_success_age = MaxAge
    /\ lock = "free"
    /\ env_ok = FALSE
    /\ pc = [t \in Threads |-> IF t = "fg" THEN "init" ELSE "unstarted"]
    /\ timer = [t \in Threads |-> 0]
    /\ marker = [t \in Threads |-> <<>>]
    /\ ps_caller = [t \in Threads |-> "none"]
    /\ result = [t \in Threads |-> "none"]
    /\ time_since_last = [t \in Threads |-> -1]
    /\ ps_sends = [t \in Threads |-> 0]
    /\ ps_sent_ok = [t \in Threads |-> FALSE]
    /\ ps_creates = [t \in Threads |-> 0]
    /\ ps_recovered = [t \in Threads |-> "none"]
    /\ co_ctx = [t \in Threads |-> "none"]
    /\ max_attempts = [t \in Threads |-> 0]
    /\ attempt = [t \in Threads |-> 0]
    /\ co_result = [t \in Threads |-> "none"]
    /\ co_tries = [t \in Threads |-> 0]
    /\ co_waits = [t \in Threads |-> 0]
    /\ event = NoEvent
    /\ sec_attempt = 0
    /\ sec_results = <<>>
    /\ success = FALSE
    /\ wire = <<>>
    /\ now = 0
    /\ stamp = [t \in StampHolders |-> NoStamp]
    /\ shutdown = <<>>
    /\ gen = NotCalled

Init ==
    /\ RecvInit
    /\ InLoop
    /\ inbound = <<>>
    /\ PubInit

\* ---------------------------------------------------------- create_outlet
\* Entering create_outlet(n) in thread t, to return to ctx.
CallCreate(t, ctx, n) ==
    /\ co_ctx' = [co_ctx EXCEPT ![t] = ctx]
    /\ max_attempts' = [max_attempts EXCEPT ![t] = n]
    /\ attempt' = [attempt EXCEPT ![t] = 0]
    /\ co_result' = [co_result EXCEPT ![t] = "none"]
    /\ co_tries' = [co_tries EXCEPT ![t] = 0]
    /\ co_waits' = [co_waits EXCEPT ![t] = 0]

\* Leaving create_outlet: its frame is dropped.
DropCreate(t) ==
    /\ co_ctx' = [co_ctx EXCEPT ![t] = "none"]
    /\ max_attempts' = [max_attempts EXCEPT ![t] = 0]
    /\ attempt' = [attempt EXCEPT ![t] = 0]
    /\ co_result' = [co_result EXCEPT ![t] = "none"]
    /\ co_tries' = [co_tries EXCEPT ![t] = 0]
    /\ co_waits' = [co_waits EXCEPT ![t] = 0]

\* A create_outlet that sleeps after its last failed attempt too.
BackoffDueAlways(a, n) == a < n

\* Line 66: the sleep follows every failed attempt but the last.
BackoffDue(a, n) == a < n - 1

\* One turn of the for loop: StreamOutlet(self.info) succeeds (return True)
\* or raises (caught; sleep unless this was the last attempt). With the
\* range exhausted the loop ends and the function returns False.
CoTry(t) ==
    /\ pc[t] = "co_try"
    /\ IF attempt[t] >= max_attempts[t]
       THEN /\ co_result' = [co_result EXCEPT ![t] = "false"]
            /\ pc' = [pc EXCEPT ![t] = "co_ret"]
            /\ UNCHANGED <<outlet, timer, attempt, co_tries, co_waits>>
       ELSE \E created \in BOOLEAN :
            /\ env_ok => created
            /\ co_tries' = [co_tries EXCEPT ![t] = @ + 1]
            /\ IF created
               THEN /\ outlet' = "live"
                    /\ co_result' = [co_result EXCEPT ![t] = "true"]
                    /\ pc' = [pc EXCEPT ![t] = "co_ret"]
                    /\ UNCHANGED <<timer, attempt, co_waits>>
               ELSE IF BackoffDue(attempt[t], max_attempts[t])
                    THEN /\ timer' = [timer EXCEPT ![t] = Backoff]
                         /\ co_waits' = [co_waits EXCEPT ![t] = @ + 1]
                         /\ pc' = [pc EXCEPT ![t] = "co_sleep"]
                         /\ UNCHANGED <<outlet, attempt, co_result>>
                    ELSE /\ attempt' = [attempt EXCEPT ![t] = @ + 1]
                         /\ UNCHANGED <<outlet, timer, co_waits, co_result, pc>>
    /\ UNCHANGED <<last_success_age, lock, env_ok, wire, co_ctx, max_attempts>>
    /\ UNCHANGED <<psLocals, secLocals>>
    /\ UNCHANGED <<recvVars, tsVars, shutdown, gen>>

\* time.sleep(1) is over: the next turn of the loop.
CoWake(t) ==
    /\ pc[t] = "co_sleep"
    /\ timer[t] = 0
    /\ attempt' = [attempt EXCEPT ![t] = @ + 1]
    /\ pc' = [pc EXCEPT ![t] = "co_try"]
    /\ UNCHANGED <<pubShared, timer, co_ctx, max_attempts, co_result, co_tries, co_waits>>
    /\ UNCHANGED <<psLocals, secLocals>>
    /\ UNCHANGED <<recvVars, tsVars, shutdown, gen>>

\* ------------------------------------------------------------ push_sample
\* Entering push_sample(m) in thread t, to return to caller.
CallPush(t, m, caller) ==
    /\ marker' = [marker EXCEPT ![t] = m]
    /\ ps_caller' = [ps_caller EXCEPT ![t] = caller]
    /\ result' = [result EXCEPT ![t] = "none"]
    /\ time_since_last' = [time_since_last EXCEPT ![t] = -1]
    /\ ps_sends' = [ps_sends EXCEPT ![t] = 0]
    /\ ps_sent_ok' = [ps_sent_ok EXCEPT ![t] = FALSE]
    /\ ps_creates' = [ps_creates EXCEPT ![t] = 0]
    /\ ps_recovered' = [ps_recovered EXCEPT ![t] = "none"]

DropPush(t) == CallPush(t, <<>>, "none")

\* A lock that never makes a thread wait.
CanAcquireAlways(t) == TRUE

\* threading.Lock: acquired only while no thread holds it.
CanAcquire(t) == lock = "free"

\* Line 72: with self.lock
PsLock(t) ==
    /\ pc[t] = "ps_lock"
    /\ CanAcquire(t)
    /\ lock' = t
    /\ pc' = [pc EXCEPT ![t] = "ps_send"]
    /\ UNCHANGED <<outlet, last_success_age, env_ok, wire, timer>>
    /\ UNCHANGED <<psLocals, coLocals, secLocals>>
    /\ UNCHANGED <<recvVars, tsVars, shutdown, gen>>

\* self.outlet.push_sample raises on a broken handle, and self.outlet itself
\* raises AttributeError, inside the try of line 80 or 93, once the attribute
\* is deleted.
SendRaises(o) == o \in {"broken", "deleted"}

\* A recovery that starts at the threshold, not past it.
RecoveryDueAtThreshold(age) == age >= RecoveryThreshold

\* Line 90: if time_since_last > 3.0
RecoveryDue(age) == age > RecoveryThreshold

\* Lines 80-91: the first send. No handle: nothing is sent and the call
\* returns False. The send raises: the age of the last success decides
\* between recovery and returning False.
PsSend(t) ==
    /\ pc[t] = "ps_send"
    /\ IF outlet = "None"
       THEN /\ result' = [result EXCEPT ![t] = "false"]
            /\ pc' = [pc EXCEPT ![t] = "ps_exit"]
            /\ UNCHANGED <<last_success_age, wire, time_since_last, ps_sends,
                           ps_sent_ok, ps_creates, coLocals>>
       ELSE IF ~SendRaises(outlet)
       THEN /\ wire' = Sent(wire, marker[t], t)
            /\ last_success_age' = 0
            /\ ps_sends' = [ps_sends EXCEPT ![t] = @ + 1]
            /\ ps_sent_ok' = [ps_sent_ok EXCEPT ![t] = TRUE]
            /\ result' = [result EXCEPT ![t] = "true"]
            /\ pc' = [pc EXCEPT ![t] = "ps_exit"]
            /\ UNCHANGED <<time_since_last, ps_creates, coLocals>>
       ELSE /\ ps_sends' = [ps_sends EXCEPT ![t] = @ + 1]
            /\ time_since_last' = [time_since_last EXCEPT ![t] = last_success_age]
            /\ IF RecoveryDue(last_success_age)
               THEN /\ CallCreate(t, "recover", DefaultMaxAttempts)
                    /\ ps_creates' = [ps_creates EXCEPT ![t] = @ + 1]
                    /\ pc' = [pc EXCEPT ![t] = "co_try"]
                    /\ UNCHANGED result
               ELSE /\ result' = [result EXCEPT ![t] = "false"]
                    /\ pc' = [pc EXCEPT ![t] = "ps_exit"]
                    /\ UNCHANGED <<ps_creates, coLocals>>
            /\ UNCHANGED <<last_success_age, wire, ps_sent_ok>>
    /\ UNCHANGED <<outlet, lock, env_ok, timer, marker, ps_caller, ps_recovered,
                   secLocals>>
    /\ UNCHANGED <<recvVars, tsVars, shutdown, gen>>

\* Line 92: create_outlet has returned into push_sample.
PsRecovered(t) ==
    /\ pc[t] = "co_ret"
    /\ co_ctx[t] = "recover"
    /\ IF co_result[t] = "true"
       THEN /\ pc' = [pc EXCEPT ![t] = "ps_retry"]
            /\ UNCHANGED result
       ELSE /\ pc' = [pc EXCEPT ![t] = "ps_exit"]
            /\ result' = [result EXCEPT ![t] = "false"]
    /\ ps_recovered' = [ps_recovered EXCEPT ![t] = co_result[t]]
    /\ DropCreate(t)
    /\ UNCHANGED <<pubShared, timer, marker, ps_caller, time_since_last, ps_sends,
                   ps_sent_ok, ps_creates, secLocals>>
    /\ UNCHANGED <<recvVars, tsVars, shutdown, gen>>

\* A retry whose exception is not caught.
RetryOutcomeUncaught(raised) == IF raised THEN "raise" ELSE "true"

\* Lines 93-100: a retry that raises is caught (except Exception as e2) and
\* the call falls through to return False.
RetryOutcome(raised) == IF raised THEN "false" ELSE "true"

\* Lines 93-99: the retry on the re-created handle.
PsRetry(t) ==
    /\ pc[t] = "ps_retry"
    /\ IF outlet = "None"
       THEN /\ result' = [result EXCEPT ![t] = "false"]
            /\ UNCHANGED <<wire, last_success_age, ps_sends, ps_sent_ok>>
       ELSE /\ ps_sends' = [ps_sends EXCEPT ![t] = @ + 1]
            /\ result' = [result EXCEPT ![t] = RetryOutcome(SendRaises(outlet))]
            /\ IF SendRaises(outlet)
               THEN UNCHANGED <<wire, last_success_age, ps_sent_ok>>
               ELSE /\ wire' = Sent(wire, marker[t], t)
                    /\ last_success_age' = 0
                    /\ ps_sent_ok' = [ps_sent_ok EXCEPT ![t] = TRUE]
    /\ pc' = [pc EXCEPT ![t] = "ps_exit"]
    /\ UNCHANGED <<outlet, lock, env_ok, timer, marker, ps_caller, time_since_last,
                   ps_creates, ps_recovered, coLocals, secLocals>>
    /\ UNCHANGED <<recvVars, tsVars, shutdown, gen>>

\* A lock that stays with the thread whose call returns False.
AfterWithKeptOnFailure(t, r) == IF r = "false" THEN t ELSE "free"

\* Line 72: leaving the with block, by whichever return or exception and
\* with whatever result r, releases the lock thread t holds.
AfterWith(t, r) == "free"

\* Leaving the with block releases the lock; the call returns (or raises).
PsExit(t) ==
    /\ pc[t] = "ps_exit"
    /\ lock' = AfterWith(t, result[t])
    /\ pc' = [pc EXCEPT ![t] = "ps_ret"]
    /\ UNCHANGED <<outlet, last_success_age, env_ok, wire, timer>>
    /\ UNCHANGED <<psLocals, coLocals, secLocals>>
    /\ UNCHANGED <<recvVars, tsVars, shutdown, gen>>

\* --------------------------------------------------------- send_event_code
\* Lines 116-120: the foreground thread calls send_event_code(outlet, code,
\* description); the first turn of the loop calls push_sample(code_str).
SendEventCode(ev) ==
    /\ pc["fg"] = "idle"
    /\ event' = ev
    /\ sec_attempt' = 0
    /\ sec_results' = <<>>
    /\ success' = FALSE
    /\ CallPush("fg", CodeStr(ev.code), "sec_code")
    /\ pc' = [pc EXCEPT !["fg"] = "ps_lock"]
    /\ UNCHANGED <<pubShared, timer, coLocals>>
    /\ UNCHANGED <<recvVars, tsVars, shutdown, gen>>

\* Lines 128-131, the except branch of the loop: the next turn of the loop
\* (after core.wait(0.5)) while turns are left, and the end of the loop with
\* success still False otherwise.
SecExcept ==
    IF sec_attempt < DefaultMaxRetries - 1
    THEN /\ sec_attempt' = sec_attempt + 1
         /\ CallPush("fg", CodeStr(event.code), "sec_code")
         /\ pc' = [pc EXCEPT !["fg"] = "ps_lock"]
         /\ UNCHANGED success
    ELSE /\ DropPush("fg")
         /\ pc' = [pc EXCEPT !["fg"] = "sec_ret"]
         /\ UNCHANGED <<sec_attempt, success>>

\* Line 123 has returned: its value is dropped, and line 124 calls
\* push_sample(description).
SecAfterCode ==
    /\ pc["fg"] = "ps_ret"
    /\ ps_caller["fg"] = "sec_code"
    /\ sec_results' = Append(sec_results, result["fg"])
    /\ IF result["fg"] = "raise"
       THEN SecExcept
       ELSE /\ CallPush("fg", event.description, "sec_desc")
            /\ pc' = [pc EXCEPT !["fg"] = "ps_lock"]
            /\ UNCHANGED <<sec_attempt, success>>
    /\ UNCHANGED <<pubShared, timer, coLocals, event>>
    /\ UNCHANGED <<recvVars, tsVars, shutdown, gen>>

\* Lines 124-127: success = True once line 124 has returned, whatever
\* push_sample returned.
SecSucceeds(r) == r /= "raise"

\* Line 124 has returned: success = True and break.
SecAfterDesc ==
    /\ pc["fg"] = "ps_ret"
    /\ ps_caller["fg"] = "sec_desc"
    /\ sec_results' = Append(sec_results, result["fg"])
    /\ IF result["fg"] = "raise"
       THEN SecExcept
       ELSE /\ success' = SecSucceeds(result["fg"])
            /\ DropPush("fg")
            /\ pc' = [pc EXCEPT !["fg"] = "sec_ret"]
            /\ UNCHANGED sec_attempt
    /\ UNCHANGED <<pubShared, timer, coLocals, event>>
    /\ UNCHANGED <<recvVars, tsVars, shutdown, gen>>

\* Line 135: return success; the caller goes on.
SecReturn ==
    /\ pc["fg"] = "sec_ret"
    /\ pc' = [pc EXCEPT !["fg"] = "idle"]
    /\ event' = NoEvent
    /\ sec_attempt' = 0
    /\ sec_results' = <<>>
    /\ success' = FALSE
    /\ UNCHANGED <<pubShared, timer, psLocals, coLocals>>
    /\ UNCHANGED <<recvVars, tsVars, shutdown, gen>>

\* --------------------------------------------------------- send_keepalive
\* A heartbeat that gives up on its first failed beat.
HbNextStopsOnFailure(r) == IF r = "true" THEN "hb_sleep" ELSE "hb_dead"

\* Lines 140-142: the value of push_sample is dropped and the loop goes on
\* to time.sleep(5.0); only an exception would end the thread.
HbNext(r) == IF r = "raise" THEN "hb_dead" ELSE "hb_sleep"

\* Line 141 has returned; result["hb"] keeps what the beat returned until the
\* next beat.
HbAfterBeat ==
    /\ pc["hb"] = "ps_ret"
    /\ ps_caller["hb"] = "hb"
    /\ pc' = [pc EXCEPT !["hb"] = HbNext(result["hb"])]
    /\ timer' = [timer EXCEPT !["hb"] = KeepaliveInterval]
    /\ marker' = [marker EXCEPT !["hb"] = <<>>]
    /\ ps_caller' = [ps_caller EXCEPT !["hb"] = "none"]
    /\ time_since_last' = [time_since_last EXCEPT !["hb"] = -1]
    /\ ps_sends' = [ps_sends EXCEPT !["hb"] = 0]
    /\ ps_sent_ok' = [ps_sent_ok EXCEPT !["hb"] = FALSE]
    /\ ps_creates' = [ps_creates EXCEPT !["hb"] = 0]
    /\ ps_recovered' = [ps_recovered EXCEPT !["hb"] = "none"]
    /\ UNCHANGED <<pubShared, result, coLocals, secLocals>>
    /\ UNCHANGED <<recvVars, tsVars, shutdown, gen>>

\* Line 142 is over: the next turn of while True.
HbWake ==
    /\ pc["hb"] = "hb_sleep"
    /\ timer["hb"] = 0
    /\ CallPush("hb", KEEPALIVE, "hb")
    /\ pc' = [pc EXCEPT !["hb"] = "ps_lock"]
    /\ UNCHANGED <<pubShared, timer, coLocals, secLocals>>
    /\ UNCHANGED <<recvVars, tsVars, shutdown, gen>>

\* ------------------------------------------------------------ main script
\* Line 55: __init__ calls self.create_outlet().
FgInit ==
    /\ pc["fg"] = "init"
    /\ CallCreate("fg", "init", DefaultMaxAttempts)
    /\ pc' = [pc EXCEPT !["fg"] = "co_try"]
    /\ UNCHANGED <<pubShared, timer, psLocals, secLocals>>
    /\ UNCHANGED <<recvVars, tsVars, shutdown, gen>>

\* Line 103: the constructor has returned.
FgConstructed ==
    /\ pc["fg"] = "co_ret"
    /\ co_ctx["fg"] = "init"
    /\ DropCreate("fg")
    /\ pc' = [pc EXCEPT !["fg"] = "start_hb"]
    /\ UNCHANGED <<pubShared, timer, psLocals, secLocals>>
    /\ UNCHANGED <<recvVars, tsVars, shutdown, gen>>

\* Lines 145-150: keepalive_thread.start(); the thread enters send_keepalive.
StartHb ==
    /\ pc["fg"] = "start_hb"
    /\ pc["hb"] = "unstarted"
    /\ CallPush("hb", KEEPALIVE, "hb")
    /\ pc' = [pc EXCEPT !["fg"] = "check", !["hb"] = "ps_lock"]
    /\ UNCHANGED <<pubShared, timer, coLocals, secLocals>>
    /\ UNCHANGED <<recvVars, tsVars, shutdown, gen>>

\* Lines 156-158: if not outlet.outlet: outlet.create_outlet()
StartupCheck ==
    /\ pc["fg"] = "check"
    /\ IF outlet = "None"
       THEN /\ CallCreate("fg", "check", DefaultMaxAttempts)
            /\ pc' = [pc EXCEPT !["fg"] = "co_try"]
       ELSE /\ pc' = [pc EXCEPT !["fg"] = "idle"]
            /\ UNCHANGED coLocals
    /\ UNCHANGED <<pubShared, timer, psLocals, secLocals>>
    /\ UNCHANGED <<recvVars, tsVars, shutdown, gen>>

\* Lines 159-160: create_outlet has returned; the script goes on either way.
FgChecked ==
    /\ pc["fg"] = "co_ret"
    /\ co_ctx["fg"] = "check"
    /\ DropCreate("fg")
    /\ pc' = [pc EXCEPT !["fg"] = "idle"]
    /\ UNCHANGED <<pubShared, timer, psLocals, secLocals>>
    /\ UNCHANGED <<recvVars, tsVars, shutdown, gen>>

\* ------------------------------------------------------------ environment
\* One second passes.
Tick ==
    /\ last_success_age' = Min(last_success_age + 1, MaxAge)
    /\ timer' = [t \in Threads |-> IF timer[t] > 0 THEN timer[t] - 1 ELSE 0]
    /\ UNCHANGED <<outlet, lock, env_ok, wire, pc, psLocals, coLocals, secLocals>>
    /\ UNCHANGED <<recvVars, tsVars, shutdown, gen>>

\* The transport is forcibly broken: sends on the handle raise from now on.
Break ==
    /\ ~env_ok
    /\ outlet = "live"
    /\ outlet' = "broken"
    /\ UNCHANGED <<last_success_age, lock, env_ok, wire, pc, timer, psLocals,
                   coLocals, secLocals>>
    /\ UNCHANGED <<recvVars, tsVars, shutdown, gen>>

\* A transient fault is over: sends on the handle succeed again.
Mend ==
    /\ outlet = "broken"
    /\ outlet' = "live"
    /\ UNCHANGED <<last_success_age, lock, env_ok, wire, pc, timer, psLocals,
                   coLocals, secLocals>>
    /\ UNCHANGED <<recvVars, tsVars, shutdown, gen>>

\* From now on creation succeeds and no handle breaks.
Heal ==
    /\ ~env_ok
    /\ env_ok' = TRUE
    /\ UNCHANGED <<outlet, last_success_age, lock, wire, pc, timer, psLocals,
                   coLocals, secLocals>>
    /\ UNCHANGED <<recvVars, tsVars, shutdown, gen>>

Next ==
    \/ FgInit
    \/ FgConstructed
    \/ StartHb
    \/ StartupCheck
    \/ FgChecked
    \/ \E ev \in Events : SendEventCode(ev)
    \/ SecAfterCode
    \/ SecAfterDesc
    \/ SecReturn
    \/ HbAfterBeat
    \/ HbWake
    \/ \E t \in Threads : CoTry(t)
    \/ \E t \in Threads : CoWake(t)
    \/ \E t \in Threads : PsLock(t)
    \/ \E t \in Threads : PsSend(t)
    \/ \E t \in Threads : PsRecovered(t)
    \/ \E t \in Threads : PsRetry(t)
    \/ \E t \in Threads : PsExit(t)
    \/ Tick
    \/ Break
    \/ Mend
    \/ Heal

Spec == Init /\ [][Next]_vars

\* ------------------------------------------------------------- subscriber
StartsWith(s, prefix) ==
    /\ Len(s) >= Len(prefix)
    /\ SubSeq(s, 1, Len(prefix)) = prefix

\* sub in s
Contains(s, sub) ==
    \E i \in 1..(Len(s) - Len(sub) + 1) : SubSeq(s, i, i + Len(sub) - 1) = sub

\* s.replace(sub, ''): every occurrence of sub, left to right, is removed.
RECURSIVE RemoveAll(_, _)
RemoveAll(s, sub) ==
    IF Len(s) < Len(sub) \/ Len(sub) = 0 THEN s
    ELSE IF StartsWith(s, sub) THEN RemoveAll(SubSeq(s, Len(sub) + 1, Len(s)), sub)
    ELSE <<Head(s)>> \o RemoveAll(Tail(s), sub)

\* s.split(sep), for a separator of one character.
RECURSIVE Split(_, _)
Split(s, sep) ==
    IF \A i \in 1..Len(s) : s[i] /= sep THEN <<s>>
    ELSE LET i == CHOOSE k \in 1..Len(s) :
                    s[k] = sep /\ \A j \in 1..(k - 1) : s[j] /= sep
         IN  <<SubSeq(s, 1, i - 1)>> \o Split(SubSeq(s, i + 1, Len(s)), sep)

CODE_101 == CodeStr(101)
CODE_EMPTY == CODE_PREFIX
CODE_CODE_101 == CODE_PREFIX \o CODE_101
TRIAL_START_ == <<"t", "r", "i", "a", "l", "_", "s", "t", "a", "r", "t", "_">>
RESPONSE_ == <<"r", "e", "s", "p", "o", "n", "s", "e", "_">>
BLOCK_ == <<"b", "l", "o", "c", "k", "_">>
NEUTRAL_BLOCK ==
    <<"n", "e", "u", "t", "r", "a", "l", "_", "b", "l", "o", "c", "k">>
EXPERIMENT_START ==
    <<"e", "x", "p", "e", "r", "i", "m", "e", "n", "t", "_", "s", "t", "a", "r", "t">>
EXPERIMENT_END ==
    <<"e", "x", "p", "e", "r", "i", "m", "e", "n", "t", "_", "e", "n", "d">>
CORRECT == <<"c", "o", "r", "r", "e", "c", "t">>
RESPONSE_R_CORRECT == RESPONSE_ \o <<"r", "_">> \o CORRECT
Colors ==
    << <<"r", "e", "d">>, <<"g", "r", "e", "e", "n">>, <<"b", "l", "u", "e">>,
       <<"y", "e", "l", "l", "o", "w">> >>

\* The payloads the subscriber pulls.
RecvPayloads ==
    {CODE_101, CodeStr(900), CODE_EMPTY, CODE_CODE_101, TRIAL_START_RED, KEEPALIVE,
     RESPONSE_R_CORRECT}

\* The publisher timestamps that come with them.
Stamps == {0, 1}

\* A pairing window that includes its end.
WithinWindowInclusive(age) == age <= PairingWindow

\* Line 82: (time.time() - self.last_code_time) < self.pairing_window
WithinWindow(age) == age < PairingWindow

\* A window counted from the start of the session.
PairsSinceStart ==
    last_code \notin {None, <<>>} /\ WithinWindow(clock - session_start)

\* Line 82: a code is cached (not None, not the empty string) and recent.
Pairs == last_code \notin {None, <<>>} /\ WithinWindow(clock - last_code_time)

\* The categories with neutral_block tested before block_.
CategorizedNeutralFirst(m) ==
    IF Contains(m, TRIAL_START_)
    THEN [marker_type |-> "TRIAL",
          trial_color |->
              IF \E i \in 1..Len(Colors) : Contains(m, Colors[i])
              THEN Colors[CHOOSE i \in 1..Len(Colors) :
                              /\ Contains(m, Colors[i])
                              /\ \A j \in 1..(i - 1) : ~Contains(m, Colors[j])]
              ELSE None,
          response_key |-> None, response_correct |-> "None"]
    ELSE IF Contains(m, RESPONSE_)
    THEN [marker_type |-> "RESPONSE", trial_color |-> None,
          response_key |-> IF Len(Split(m, "_")) > 1 THEN Split(m, "_")[2] ELSE None,
          response_correct |-> IF Contains(m, CORRECT) THEN "True" ELSE "False"]
    ELSE [marker_type |->
              IF Contains(m, NEUTRAL_BLOCK) THEN "NEUTRAL"
              ELSE IF Contains(m, BLOCK_) THEN "BLOCK"
              ELSE IF m \in {EXPERIMENT_START, EXPERIMENT_END} THEN "EXPERIMENT"
              ELSE "SYSTEM",
          trial_color |-> None, response_key |-> None, response_correct |-> "None"]

\* Lines 87-108: the marker type and the fields that come with it.
Categorized(m) ==
    IF Contains(m, TRIAL_START_)
    THEN [marker_type |-> "TRIAL",
          trial_color |->
              IF \E i \in 1..Len(Colors) : Contains(m, Colors[i])
              THEN Colors[CHOOSE i \in 1..Len(Colors) :
                              /\ Contains(m, Colors[i])
                              /\ \A j \in 1..(i - 1) : ~Contains(m, Colors[j])]
              ELSE None,
          response_key |-> None, response_correct |-> "None"]
    ELSE IF Contains(m, RESPONSE_)
    THEN [marker_type |-> "RESPONSE", trial_color |-> None,
          response_key |-> IF Len(Split(m, "_")) > 1 THEN Split(m, "_")[2] ELSE None,
          response_correct |-> IF Contains(m, CORRECT) THEN "True" ELSE "False"]
    ELSE [marker_type |->
              IF Contains(m, BLOCK_) THEN "BLOCK"
              ELSE IF Contains(m, NEUTRAL_BLOCK) THEN "NEUTRAL"
              ELSE IF m \in {EXPERIMENT_START, EXPERIMENT_END} THEN "EXPERIMENT"
              ELSE "SYSTEM",
          trial_color |-> None, response_key |-> None, response_correct |-> "None"]

\* A record that holds only the fields its branch fills in, with no defaults
\* for the others.
ProcessMarkerSparse(m, timestamp) ==
    LET base == [timestamp |-> timestamp,
                 local_time |-> clock,
                 elapsed_seconds |-> clock - session_start,
                 marker_content |-> m]
    IN  IF StartsWith(m, CODE_PREFIX)
        THEN base @@ [marker_type |-> "CODE",
                      numeric_code |-> RemoveAll(m, CODE_PREFIX)]
        ELSE base @@ Categorized(m)
                  @@ [numeric_code |-> IF Pairs THEN last_code ELSE None]

\* process_marker(marker, timestamp): the record it returns. local_time is the
\* instant datetime.now() formats.
ProcessMarker(m, timestamp) ==
    LET base == [timestamp |-> timestamp,
                 local_time |-> clock,
                 elapsed_seconds |-> clock - session_start,
                 marker_content |-> m]
    IN  IF StartsWith(m, CODE_PREFIX)
        THEN base @@ [marker_type |-> "CODE",
                      numeric_code |-> RemoveAll(m, CODE_PREFIX),
                      trial_color |-> None, response_key |-> None,
                      response_correct |-> "None"]
        ELSE base @@ Categorized(m)
                  @@ [numeric_code |-> IF Pairs THEN last_code ELSE None]

\* A pairing that leaves the cached code in place.
AfterPairingKept(code) == code

\* Line 84: what self.last_code holds once a marker has paired with it.
AfterPairing(code) == None

\* A cached code that is dropped once its window has passed.
CacheExpiring(m) ==
    IF StartsWith(m, CODE_PREFIX)
    THEN /\ last_code' = RemoveAll(m, CODE_PREFIX)
         /\ last_code_time' = clock
    ELSE /\ last_code' = IF Pairs \/ ~WithinWindow(clock - last_code_time)
                         THEN None ELSE last_code
         /\ UNCHANGED last_code_time

\* Lines 72-73 and 84: what process_marker does to the cached code.
Cache(m) ==
    IF StartsWith(m, CODE_PREFIX)
    THEN /\ last_code' = RemoveAll(m, CODE_PREFIX)
         /\ last_code_time' = clock
    ELSE /\ last_code' = IF Pairs THEN AfterPairing(last_code) ELSE last_code
         /\ UNCHANGED last_code_time

\* Line 164: what pull_sample returns when a sample arrived: its one channel
\* sample[0] and its timestamp.
Sample(m, timestamp) == [payload |-> m, timestamp |-> timestamp]

\* The record goes in front: self.data.insert(0, record).
IngestNewestFirst(m, timestamp) ==
    /\ pulled' = Append(pulled, Sample(m, timestamp))
    /\ data' = <<ProcessMarker(m, timestamp)>> \o data
    /\ Cache(m)

\* Lines 164 and 167-169: pull_sample has returned the sample, process_marker
\* makes its record (and updates the cached code) and the record is appended.
Ingest(m, timestamp) ==
    /\ pulled' = Append(pulled, Sample(m, timestamp))
    /\ data' = Append(data, ProcessMarker(m, timestamp))
    /\ Cache(m)

\* A test of the payload instead of the sample: if sample[0].
TruthyPayload(sample) == Len(sample) > 0 /\ Len(sample[1]) > 0

\* Line 166: if sample. A sample is the list of its one channel; the None of
\* an empty pull is the list of no channel here.
Truthy(sample) == Len(sample) > 0

\* Lines 166-169: what pull_sample returned is processed, if it is a sample.
IngestIfSample(sample, timestamp) ==
    IF Truthy(sample)
    THEN Ingest(sample[1], timestamp)
    ELSE UNCHANGED <<data, pulled, last_code, last_code_time>>

\* One turn of the loop of run() that pulls the sample (m, timestamp).
IngestSample(m, timestamp) ==
    /\ Len(data) < MaxRecords
    /\ Ingest(m, timestamp)
    /\ UNCHANGED <<clock, session_start>>
    /\ UNCHANGED runVars
    /\ UNCHANGED pubVars

\* 0.05 s pass on the subscriber's clock.
RecvTick ==
    /\ clock < MaxClock
    /\ rpc /= "exited"
    /\ clock' = clock + 1
    /\ UNCHANGED <<session_start, data, pulled, last_code, last_code_time>>
    /\ UNCHANGED runVars
    /\ UNCHANGED pubVars

RecvNext ==
    \/ \E m \in RecvPayloads, timestamp \in Stamps : IngestSample(m, timestamp)
    \/ RecvTick

RecvSpec == Init /\ [][RecvNext]_vars

\* ------------------------------------------- the initialization pulses
\* Line 124: the description's timestamp is 0.001 s after the code's;
\* publisher timestamps are in milliseconds.
Epsilon == 1

\* Lines 116-124: the push_sample calls of one turn of send_event_code's
\* loop, with their arguments.
SecPushes(code, description, timestamp) ==
    << [payload |-> CodeStr(code), timestamp |-> timestamp],
       [payload |-> description, timestamp |-> timestamp + Epsilon] >>

\* Lines 164-167: send_event_code(outlet, 900, 'SYSTEM_INIT'), core.wait(0.5),
\* send_event_code(outlet, 901, 'NIRX_CONNECT'), the first at local_clock() t1
\* and the second at t2, each delivered by its first turn.
InitPulses(t1, t2) ==
    SecPushes(900, SYSTEM_INIT, t1) \o SecPushes(901, NIRX_CONNECT, t2)

\* Line 165: core.wait(0.5), in ticks of the subscriber's clock.
PulseWait == 10

\* How long the scenario is watched, in ticks.
ScenarioEnd == 12

\* The subscriber is in its loop and the four samples of lines 164-167 are
\* on their way to it.
ScenarioInit ==
    /\ RecvInit
    /\ InLoop
    /\ PubInit
    /\ \E t1 \in Stamps, d \in Stamps : inbound = InitPulses(t1, t1 + Epsilon + 1 + d)

\* Line 164 returns the next sample: a description arrives inside the pairing
\* window of its code, a code at least core.wait(0.5) after what went before.
ScenarioPull ==
    /\ rpc = "pull"
    /\ inbound /= <<>>
    /\ LET s == Head(inbound)
           since == clock - data[Len(data)].local_time
       IN  /\ data /= <<>> =>
                IF StartsWith(s.payload, CODE_PREFIX)
                THEN since >= PulseWait
                ELSE WithinWindow(since)
           /\ IngestIfSample(<<s.payload>>, s.timestamp)
    /\ inbound' = Tail(inbound)
    /\ UNCHANGED <<clock, session_start, rpc, inlet, idle, conn_timeout, conn_elapsed,
                   saves, csv, summary, log>>
    /\ UNCHANGED pubVars

\* 0.05 s pass on the subscriber's clock.
ScenarioTick ==
    /\ clock < ScenarioEnd
    /\ clock' = clock + 1
    /\ UNCHANGED <<session_start, data, pulled, last_code, last_code_time>>
    /\ UNCHANGED runVars
    /\ UNCHANGED pubVars

ScenarioNext ==
    \/ ScenarioPull
    \/ ScenarioTick

ScenarioSpec == ScenarioInit /\ [][ScenarioNext]_vars

\* ------------------------------------------------ encoding and decoding
\* The codes of three digits that {code:03d} of line 117 pads.
Codes == 0..999

\* Descriptions: the default "", two of the script's, one that is itself a tag.
CodecDescriptions == {<<>>, SYSTEM_INIT, TRIAL_START_RED, CODE_101}

\* Lines 114-127: send_event_code(outlet, ev.code, ev.description) takes its
\* timestamp and both push_sample calls of its first turn deliver, so the
\* two samples are on their way to the subscriber.
CodecSend(ev, timestamp) ==
    /\ data = <<>>
    /\ inbound = <<>>
    /\ event' = ev
    /\ inbound' = SecPushes(ev.code, ev.description, timestamp)
    /\ UNCHANGED <<pubShared, pc, timer, psLocals, coLocals, sec_attempt, sec_results,
                   success, tsVars, shutdown, gen>>
    /\ UNCHANGED <<clock, session_start, data, pulled, last_code, last_code_time, rpc, inlet, idle,
                   conn_timeout, conn_elapsed, saves, csv, summary, log>>

\* Lines 164-169: the next sample is pulled, decoded and appended.
CodecPull ==
    /\ rpc = "pull"
    /\ inbound /= <<>>
    /\ IngestIfSample(<<Head(inbound).payload>>, Head(inbound).timestamp)
    /\ inbound' = Tail(inbound)
    /\ UNCHANGED <<clock, session_start, rpc, inlet, idle, conn_timeout, conn_elapsed,
                   saves, csv, summary, log>>
    /\ UNCHANGED pubVars

CodecNext ==
    \/ \E code \in Codes, description \in CodecDescriptions, timestamp \in Stamps :
          CodecSend([code |-> code, description |-> description], timestamp)
    \/ CodecPull

CodecSpec == Init /\ [][CodecNext]_vars

\* ------------------------------------------------- decoding any payload
RESPONSE_R_INCORRECT == RESPONSE_ \o <<"r", "_", "i", "n">> \o CORRECT
NO_RESPONSE == <<"n", "o", "_", "r", "e", "s", "p", "o", "n", "s", "e">>
BLOCK_1_END == BLOCK_ \o <<"1", "_", "e", "n", "d">>
NEUTRAL_BLOCK_START == NEUTRAL_BLOCK \o <<"_", "s", "t", "a", "r", "t">>
TRIAL_1_START_RED ==
    <<"t", "r", "i", "a", "l", "_", "1", "_", "s", "t", "a", "r", "t", "_", "r", "e", "d">>

\* part_000 lines 932-948 and 1081: the stimulus is a colour word followed by
\* an ink colour.
TRIAL_START_REDYELLOW == TRIAL_START_ \o Colors[1] \o Colors[4]
TRIAL_START_YELLOWRED == TRIAL_START_ \o Colors[4] \o Colors[1]

\* part_000:931-948: stimuli of the script's table, the word and then the ink.
Stimuli == {Colors[1] \o Colors[1], Colors[1] \o Colors[4], Colors[4] \o Colors[1]}

\* part_000:1081: the description of a trial start in the congruent block.
TrialStart(stimulus) == TRIAL_START_ \o stimulus

\* part_000:556-557: the description of a trial start in run_block, which
\* carries the number of the trial.
NumberedTrialStart(trial_num, stimulus) ==
    <<"t", "r", "i", "a", "l", "_">> \o trial_num
        \o <<"_", "s", "t", "a", "r", "t", "_">> \o stimulus

\* The descriptions the script publishes when a trial starts.
TrialStarts ==
    {TrialStart(st) : st \in Stimuli}
        \cup {NumberedTrialStart(<<"1">>, st) : st \in Stimuli}

\* part_000:582 and 1107: the descriptions the script publishes for a
\* response with the key r. (With no key pressed it publishes NO_RESPONSE,
\* lines 585 and 1111.)
Responses == {RESPONSE_R_CORRECT, RESPONSE_R_INCORRECT}

\* Payloads of every category, payloads that match several rules, and
\* payloads that match none.
DecodePayloads ==
    { CODE_101, CODE_EMPTY, CODE_PREFIX \o TRIAL_START_RED,
      TRIAL_START_RED, TRIAL_START_REDYELLOW, TRIAL_START_YELLOWRED, TRIAL_START_ \o RESPONSE_R_CORRECT, TRIAL_START_ \o BLOCK_1_END,
      RESPONSE_R_CORRECT, RESPONSE_R_INCORRECT, RESPONSE_ \o BLOCK_1_END,
      RESPONSE_ \o NEUTRAL_BLOCK, RESPONSE_,
      BLOCK_1_END, NEUTRAL_BLOCK_START, NEUTRAL_BLOCK,
      EXPERIMENT_START, EXPERIMENT_END, EXPERIMENT_START \o <<"e", "d">>,
      KEEPALIVE, SYSTEM_INIT, NO_RESPONSE, TRIAL_1_START_RED,
      NumberedTrialStart(<<"1">>, Colors[1] \o Colors[4]), <<>> }

\* The subscriber is in its loop and one sample is on its way to it.
DecodeInit ==
    /\ RecvInit
    /\ InLoop
    /\ PubInit
    /\ \E m \in DecodePayloads, timestamp \in Stamps :
          inbound = <<[payload |-> m, timestamp |-> timestamp]>>

DecodeNext ==
    \/ CodecPull
    \/ RecvTick

DecodeSpec == DecodeInit /\ [][DecodeNext]_vars

\* ------------------------------------------------------------------ run()
\* How many records the run is followed for.
MaxRunRecords == 2

\* Line 19: connect_to_stream's default timeout, in seconds.
DefaultTimeout == 30
\* Line 177: the timeout of the recovery, in seconds.
RecoveryTimeout == 10
\* Line 32: resolve_byprop's timeout, in seconds.
ResolveTimeout == 5
\* Line 43: the sleep after a resolution that found nothing, in seconds.
RetrySleep == 2
\* Line 50: the sleep after a resolution that raised, in seconds.
ErrorSleep == 1

\* The payloads the run pulls.
RunPayloads == {CODE_101, TRIAL_START_RED, RESPONSE_R_INCORRECT}

\* The publisher timestamp that comes with a payload.
RunStamp(m) == IF m = CODE_101 THEN 0 ELSE Epsilon

\* The receiver is constructed and run() is entered.
RunInit ==
    /\ RecvInit
    /\ PubInit
    /\ inbound = <<>>
    /\ rpc = "start"
    /\ inlet = "None"
    /\ idle = FALSE
    /\ conn_timeout = 0
    /\ conn_elapsed = 0
    /\ saves = 0
    /\ csv = NoFile
    /\ summary = NoSummary
    /\ log = <<>>

\* Lines 157 and 25-26: run() calls connect_to_stream(), which starts its
\* clock.
RunStart ==
    /\ rpc = "start"
    /\ rpc' = "connect"
    /\ conn_timeout' = DefaultTimeout
    /\ conn_elapsed' = 0
    /\ UNCHANGED <<clock, session_start, data, pulled, last_code, last_code_time, inbound,
                   inlet, idle, saves, csv, summary, log>>
    /\ UNCHANGED pubVars

\* connect_to_stream is running, called from line 157 or from line 177.
Connecting == rpc \in {"connect", "recover"}

\* connect_to_stream is left, and its timeout and start_time with it.
ConnReturns ==
    /\ conn_timeout' = 0
    /\ conn_elapsed' = 0

\* Lines 28-40: time is left, the stream is resolved, the inlet is made and
\* the session starts again; connect_to_stream returns True and run() is at
\* its pull.
ConnFound ==
    /\ Connecting
    /\ conn_elapsed < conn_timeout
    /\ inlet' = "open"
    /\ session_start' = clock
    /\ rpc' = "pull"
    /\ ConnReturns
    /\ UNCHANGED <<clock, data, pulled, last_code, last_code_time, inbound, idle, saves, csv,
                   summary, log>>
    /\ UNCHANGED pubVars

\* A start_time taken anew in every turn of the loop.
ElapsedRestarted(elapsed, spent) == spent

\* Line 28: time.time() - start_time, once a turn of the loop that began at
\* elapsed has spent its time.
Elapsed(elapsed, spent) == elapsed + spent

\* Lines 28-43: time is left, resolve_byprop waits out its timeout and finds
\* nothing, and the loop sleeps.
ConnNone ==
    /\ Connecting
    /\ conn_elapsed < conn_timeout
    /\ conn_elapsed' = Elapsed(conn_elapsed, ResolveTimeout + RetrySleep)
    /\ UNCHANGED <<clock, session_start, data, pulled, last_code, last_code_time, inbound,
                   rpc, inlet, idle, conn_timeout, saves, csv, summary, log>>
    /\ UNCHANGED pubVars

\* Lines 28-35 and 48-50: time is left, the resolution or the construction of
\* the inlet raises at once, and the loop sleeps.
ConnError ==
    /\ Connecting
    /\ conn_elapsed < conn_timeout
    /\ conn_elapsed' = Elapsed(conn_elapsed, ErrorSleep)
    /\ UNCHANGED <<clock, session_start, data, pulled, last_code, last_code_time, inbound,
                   rpc, inlet, idle, conn_timeout, saves, csv, summary, log>>
    /\ UNCHANGED pubVars

\* sys.exit(0) leaves every frame at once.
AfterSysExitAtOnce(ctx) == "exited"

\* Where run() is once sys.exit(0) of line 47 has raised SystemExit in a
\* connect_to_stream called at ctx: line 157 is outside the try of line 160,
\* line 177 is inside it, so its finally block runs.
AfterSysExit(ctx) == IF ctx = "recover" THEN "finally1" ELSE "exited"

\* Lines 45-47: the operator interrupts the discovery.
ConnInterrupt ==
    /\ Connecting
    /\ conn_elapsed < conn_timeout
    /\ rpc' = AfterSysExit(rpc)
    /\ log' = <<"sysexit">> \o (IF AfterSysExit(rpc) = "exited" THEN <<"exit">> ELSE <<>>)
    /\ ConnReturns
    /\ UNCHANGED <<clock, session_start, data, pulled, last_code, last_code_time, inbound,
                   inlet, idle, saves, csv, summary>>
    /\ UNCHANGED pubVars

\* A recovery that failed is followed by the next pull.
AfterConnectFailsPullsOn(ctx) == IF ctx = "recover" THEN "pull" ELSE "exited"

\* Where run() is once connect_to_stream called at ctx has returned False:
\* line 158 returns from run(), line 179 breaks out of the loop.
AfterConnectFails(ctx) == IF ctx = "recover" THEN "finally1" ELSE "exited"

\* Lines 28 and 52-53: no time is left and connect_to_stream returns False.
ConnTimeout ==
    /\ Connecting
    /\ conn_elapsed >= conn_timeout
    /\ rpc' = AfterConnectFails(rpc)
    /\ log' = CASE AfterConnectFails(rpc) = "finally1" -> <<"lost">>
                [] AfterConnectFails(rpc) = "exited" -> <<"exit">>
                [] OTHER -> log
    /\ ConnReturns
    /\ UNCHANGED <<clock, session_start, data, pulled, last_code, last_code_time, inbound,
                   inlet, idle, saves, csv, summary>>
    /\ UNCHANGED pubVars

\* Lines 164-169: pull_sample returns the sample (m, timestamp).
RunPull(m, timestamp) ==
    /\ rpc = "pull"
    /\ Len(data) < MaxRunRecords
    /\ IngestIfSample(<<m>>, timestamp)
    /\ idle' = FALSE
    /\ UNCHANGED <<clock, session_start, inbound, rpc, inlet, conn_timeout, conn_elapsed,
                   saves, csv, summary, log>>
    /\ UNCHANGED pubVars

\* An empty pull handled as a fault of the transport.
AfterEmptyPullRecovers == "recover"

\* Lines 164-166: where run() is after a pull that returned no sample: the
\* if of line 166 is skipped and the loop takes its next turn.
AfterEmptyPull == "pull"

\* Lines 164-166: pull_sample times out and returns (None, None).
RunEmpty ==
    /\ rpc = "pull"
    /\ IngestIfSample(<<>>, None)
    /\ rpc' = AfterEmptyPull
    /\ idle' = TRUE
    /\ UNCHANGED <<clock, session_start, inbound, inlet, conn_timeout, conn_elapsed,
                   saves, csv, summary, log>>
    /\ UNCHANGED pubVars

\* Lines 164 and 171-173: the operator interrupts the pull.
RunInterrupt ==
    /\ rpc = "pull"
    /\ rpc' = "finally1"
    /\ log' = <<"interrupt">>
    /\ idle' = FALSE
    /\ UNCHANGED <<clock, session_start, data, pulled, last_code, last_code_time, inbound,
                   inlet, conn_timeout, conn_elapsed, saves, csv, summary>>
    /\ UNCHANGED pubVars

\* Lines 167-168 and 171-173: the sample m is pulled and the operator
\* interrupts process_marker or display_marker, before or after the cached
\* code is updated; line 169 is not reached.
RunInterruptProcessing(m) ==
    /\ rpc = "pull"
    /\ \/ Cache(m)
       \/ UNCHANGED <<last_code, last_code_time>>
    /\ rpc' = "finally1"
    /\ log' = <<"interrupt">>
    /\ idle' = FALSE
    /\ pulled' = Append(pulled, Sample(m, RunStamp(m)))
    /\ UNCHANGED <<clock, session_start, data, inbound, inlet, conn_timeout,
                   conn_elapsed, saves, csv, summary>>
    /\ UNCHANGED pubVars

\* Lines 164 and 175-177: pull_sample raises, and connect_to_stream(timeout=10)
\* is called and starts its clock.
RunFault ==
    /\ rpc = "pull"
    /\ inlet' = "faulted"
    /\ rpc' = "recover"
    /\ conn_timeout' = RecoveryTimeout
    /\ conn_elapsed' = 0
    /\ idle' = FALSE
    /\ UNCHANGED <<clock, session_start, data, pulled, last_code, last_code_time, inbound,
                   saves, csv, summary, log>>
    /\ UNCHANGED pubVars

\* A finally block that closes the stream before it saves.
FinallyStepsCloseFirst == <<"close", "save">>

\* Lines 182-184: the statements of the finally block, in their order.
FinallySteps == <<"save", "close">>

\* The statement of the finally block run() is at.
FinallyAt ==
    CASE rpc = "finally1" -> FinallySteps[1]
      [] rpc = "finally2" -> FinallySteps[2]
      [] OTHER -> "none"

AfterFinallyStep == IF rpc = "finally1" THEN "finally2" ELSE "shutdown"

\* A file that lacks the first record.
CsvRowsAfterFirst(d) == Tail(d)

\* Line 143: writer.writerows(self.data).
CsvRows(d) == d

\* The records of d of marker type k.
OfType(d, k) == SelectSeq(d, LAMBDA r : r.marker_type = k)

\* Line 148: sum(1 for r in responses if r['response_correct']).
Correct(responses) == Len(SelectSeq(responses, LAMBDA r : r.response_correct = "True"))

\* An accuracy that is computed whatever the number of responses.
AccuracyUnguarded(correct, n) ==
    IF n = 0 THEN <<"ZeroDivisionError">> ELSE <<"Accuracy", correct, n>>

\* Line 153: the line printed is the ratio correct/len(responses) if there
\* are responses, else "No responses recorded".
Accuracy(correct, n) ==
    IF n /= 0 THEN <<"Accuracy", correct, n>> ELSE <<"No responses recorded">>

\* Lines 146-153: the summary printed for the records d.
Summary(d) ==
    LET trials == OfType(d, "TRIAL")
        responses == OfType(d, "RESPONSE")
    IN  [printed |-> TRUE, trials |-> Len(trials), responses |-> Len(responses),
         accuracy |-> Accuracy(Correct(responses), Len(responses))]

\* Lines 131-153, save_data: with no record it prints "No data to save" and
\* returns, otherwise it writes the header and one row per record and prints
\* the summary.
RunSave ==
    /\ FinallyAt = "save"
    /\ saves' = saves + 1
    /\ csv' = IF data = <<>> THEN csv ELSE [written |-> TRUE, rows |-> CsvRows(data)]
    /\ summary' = IF data = <<>> THEN summary ELSE Summary(data)
    /\ log' = Append(log, "flush")
    /\ rpc' = AfterFinallyStep
    /\ UNCHANGED <<clock, session_start, data, pulled, last_code, last_code_time, inbound,
                   inlet, idle, conn_timeout, conn_elapsed>>
    /\ UNCHANGED pubVars

\* Lines 183-184: the inlet, if there is one, is closed.
RunClose ==
    /\ FinallyAt = "close"
    /\ IF inlet /= "None"
       THEN /\ inlet' = "closed"
            /\ log' = Append(log, "close")
       ELSE UNCHANGED <<inlet, log>>
    /\ rpc' = AfterFinallyStep
    /\ UNCHANGED <<clock, session_start, data, pulled, last_code, last_code_time, inbound, idle,
                   conn_timeout, conn_elapsed, saves, csv, summary>>
    /\ UNCHANGED pubVars

\* Line 185 and the end of run(): the process is over (by the SystemExit still
\* in flight, if line 47 raised it).
RunExit ==
    /\ rpc = "shutdown"
    /\ rpc' = "exited"
    /\ log' = Append(log, "exit")
    /\ UNCHANGED <<clock, session_start, data, pulled, last_code, last_code_time, inbound,
                   inlet, idle, conn_timeout, conn_elapsed, saves, csv, summary>>
    /\ UNCHANGED pubVars

RunNext ==
    \/ RunStart
    \/ ConnFound
    \/ ConnNone
    \/ ConnError
    \/ ConnInterrupt
    \/ ConnTimeout
    \/ \E m \in RunPayloads : RunPull(m, RunStamp(m))
    \/ RunEmpty
    \/ RunInterrupt
    \/ \E m \in RunPayloads : RunInterruptProcessing(m)
    \/ RunFault
    \/ RunSave
    \/ RunClose
    \/ RunExit
    \/ RecvTick

RunSpec == RunInit /\ [][RunNext]_vars

\* connect_to_stream, once called, keeps running: resolve_byprop and the
\* sleeps return. Nothing makes the stream appear or the operator interrupt.
FairRunSpec ==
    /\ RunSpec
    /\ WF_vars(ConnNone \/ ConnError \/ ConnTimeout)

\* ------------------------------------------------- timestamps and payloads
\* The marker argument of push_sample: a string, a list or a tuple.
StrArg(s) == [type |-> "str", val |-> s]
ListArg(items) == [type |-> "list", val |-> items]
TupleArg(items) == [type |-> "tuple", val |-> items]

\* Lines 76-78: a list or a tuple is replaced by its first field, or by "" if
\* it has none, and str() is taken.
MarkerStr(arg) ==
    IF arg.type \in {"list", "tuple"}
    THEN IF Len(arg.val) > 0 THEN arg.val[1] ELSE <<>>
    ELSE arg.val

\* The markers push_sample is called with directly.
StampArgs ==
    {StrArg(SYSTEM_INIT), ListArg(<<SYSTEM_INIT, KEEPALIVE>>), ListArg(<<>>), TupleArg(<<>>)}

\* The descriptions send_event_code is called with: the default "" and one of
\* the script's.
StampDescriptions == {<<>>, SYSTEM_INIT}

\* What the script leaves alone while the transport is healthy and the
\* subscriber is not watched.
stampFrame ==
    <<outlet, last_success_age, env_ok, wire, result, time_since_last, ps_sends,
      ps_sent_ok, ps_creates, ps_recovered, coLocals, sec_attempt, sec_results, success,
      clock, session_start, data, pulled, last_code, last_code_time, rpc, inlet, idle,
      conn_timeout, conn_elapsed, saves, csv, summary, log, shutdown, gen>>

\* The outlet exists and is healthy, the heartbeat thread is started (line
\* 150) and the foreground thread is between two events.
StampInit ==
    /\ RecvInit
    /\ InLoop
    /\ inbound = <<>>
    /\ outlet = "live"
    /\ last_success_age = 0
    /\ lock = "free"
    /\ env_ok = TRUE
    /\ pc = [t \in Threads |-> IF t = "fg" THEN "idle" ELSE "hb_sleep"]
    /\ timer = [t \in Threads |-> 0]
    /\ marker = [t \in Threads |-> StrArg(<<>>)]
    /\ ps_caller = [t \in Threads |-> "none"]
    /\ result = [t \in Threads |-> "none"]
    /\ time_since_last = [t \in Threads |-> -1]
    /\ ps_sends = [t \in Threads |-> 0]
    /\ ps_sent_ok = [t \in Threads |-> FALSE]
    /\ ps_creates = [t \in Threads |-> 0]
    /\ ps_recovered = [t \in Threads |-> "none"]
    /\ co_ctx = [t \in Threads |-> "none"]
    /\ max_attempts = [t \in Threads |-> 0]
    /\ attempt = [t \in Threads |-> 0]
    /\ co_result = [t \in Threads |-> "none"]
    /\ co_tries = [t \in Threads |-> 0]
    /\ co_waits = [t \in Threads |-> 0]
    /\ event = NoEvent
    /\ sec_attempt = 0
    /\ sec_results = <<>>
    /\ success = FALSE
    /\ wire = <<>>
    /\ now = 0
    /\ stamp = [t \in StampHolders |-> NoStamp]
    /\ shutdown = <<>>
    /\ gen = NotCalled

\* Line 70: thread t calls push_sample(arg, ...) for caller.
StampCall(t, arg, caller) ==
    /\ marker' = [marker EXCEPT ![t] = arg]
    /\ ps_caller' = [ps_caller EXCEPT ![t] = caller]
    /\ pc' = [pc EXCEPT ![t] = "ps_lock"]

\* Lines 116-123: send_event_code(outlet, code, description) takes its
\* timestamp from the clock and calls push_sample(code_str, timestamp).
StampSendEventCode(code, description) ==
    /\ pc["fg"] = "idle"
    /\ Len(inbound) + 3 <= MaxWire
    /\ event' = [code |-> code, description |-> description]
    /\ stamp' = [stamp EXCEPT !["sec"] = now, !["fg"] = now]
    /\ StampCall("fg", StrArg(CodeStr(code)), "sec_code")
    /\ UNCHANGED <<lock, now, inbound, timer>>
    /\ UNCHANGED stampFrame

\* Line 70: the foreground thread calls push_sample(arg), timestamp=None.
StampPushSample(arg) ==
    /\ pc["fg"] = "idle"
    /\ Len(inbound) + 3 <= MaxWire
    /\ stamp' = [stamp EXCEPT !["fg"] = NoStamp]
    /\ StampCall("fg", arg, "direct")
    /\ UNCHANGED <<lock, now, inbound, timer, event>>
    /\ UNCHANGED stampFrame

\* Line 141: the heartbeat thread calls push_sample("KEEPALIVE"),
\* timestamp=None.
StampKeepalive ==
    /\ pc["hb"] = "hb_sleep"
    /\ timer["hb"] = 0
    /\ Len(inbound) + 3 <= MaxWire
    /\ stamp' = [stamp EXCEPT !["hb"] = NoStamp]
    /\ StampCall("hb", StrArg(KEEPALIVE), "hb")
    /\ UNCHANGED <<lock, now, inbound, timer, event>>
    /\ UNCHANGED stampFrame

\* Lines 72-74: the lock is taken, and a timestamp that is None is taken from
\* the clock.
StampLock(t) ==
    /\ pc[t] = "ps_lock"
    /\ CanAcquire(t)
    /\ lock' = t
    /\ stamp' = [stamp EXCEPT ![t] = IF @ = NoStamp THEN now ELSE @]
    /\ pc' = [pc EXCEPT ![t] = "ps_send"]
    /\ UNCHANGED <<marker, ps_caller, now, inbound, timer, event>>
    /\ UNCHANGED stampFrame

\* Lines 76-84: the marker is normalised, the sample [marker_str] goes on the
\* wire with the timestamp, the lock is released and push_sample returns
\* True. Returned to line 123, send_event_code calls push_sample(description,
\* timestamp + 0.001) (line 124); returned to line 124 it returns; returned
\* to line 141, the heartbeat sleeps (line 142).
StampSend(t) ==
    /\ pc[t] = "ps_send"
    /\ inbound' = Append(inbound, [payload |-> MarkerStr(marker[t]),
                                   timestamp |-> stamp[t]])
    /\ lock' = "free"
    /\ IF ps_caller[t] = "sec_code"
       THEN /\ stamp' = [stamp EXCEPT ![t] = stamp["sec"] + Epsilon]
            /\ StampCall(t, StrArg(event.description), "sec_desc")
            /\ UNCHANGED <<event, timer>>
       ELSE /\ stamp' = [stamp EXCEPT ![t] = NoStamp,
                                      !["sec"] = IF t = "fg" THEN NoStamp ELSE @]
            /\ marker' = [marker EXCEPT ![t] = StrArg(<<>>)]
            /\ ps_caller' = [ps_caller EXCEPT ![t] = "none"]
            /\ pc' = [pc EXCEPT ![t] = IF t = "hb" THEN "hb_sleep" ELSE "idle"]
            /\ timer' = [timer EXCEPT ![t] = IF t = "hb" THEN KeepaliveInterval ELSE @]
            /\ event' = IF t = "fg" THEN NoEvent ELSE event
    /\ UNCHANGED now
    /\ UNCHANGED stampFrame

\* A millisecond passes on pylsl.local_clock().
StampTick ==
    /\ now < MaxNow
    /\ now' = now + 1
    /\ UNCHANGED <<pc, lock, marker, ps_caller, stamp, inbound, timer, event>>
    /\ UNCHANGED stampFrame

StampNext ==
    \/ \E description \in StampDescriptions : StampSendEventCode(900, description)
    \/ \E arg \in StampArgs : StampPushSample(arg)
    \/ StampKeepalive
    \/ \E t \in Threads : StampLock(t)
    \/ \E t \in Threads : StampSend(t)
    \/ StampTick

StampSpec == StampInit /\ [][StampNext]_vars

\* ------------------------------------------------- create_outlet on its own
\* Line 57: create_outlet(max_attempts = n) is entered by the foreground
\* thread, for every n up to MaxAttemptsArg and every state of the handle.
CreateCall ==
    /\ RecvInit
    /\ InLoop
    /\ inbound = <<>>
    /\ outlet \in {"None", "live", "broken"}
    /\ last_success_age = MaxAge
    /\ lock = "free"
    /\ env_ok = FALSE
    /\ pc = [t \in Threads |-> IF t = "fg" THEN "co_try" ELSE "unstarted"]
    /\ timer = [t \in Threads |-> 0]
    /\ marker = [t \in Threads |-> <<>>]
    /\ ps_caller = [t \in Threads |-> "none"]
    /\ result = [t \in Threads |-> "none"]
    /\ time_since_last = [t \in Threads |-> -1]
    /\ ps_sends = [t \in Threads |-> 0]
    /\ ps_sent_ok = [t \in Threads |-> FALSE]
    /\ ps_creates = [t \in Threads |-> 0]
    /\ ps_recovered = [t \in Threads |-> "none"]
    /\ co_ctx = [t \in Threads |-> IF t = "fg" THEN "call" ELSE "none"]
    /\ \E n \in 0..MaxAttemptsArg :
        max_attempts = [t \in Threads |-> IF t = "fg" THEN n ELSE 0]
    /\ attempt = [t \in Threads |-> 0]
    /\ co_result = [t \in Threads |-> "none"]
    /\ co_tries = [t \in Threads |-> 0]
    /\ co_waits = [t \in Threads |-> 0]
    /\ event = NoEvent
    /\ sec_attempt = 0
    /\ sec_results = <<>>
    /\ success = FALSE
    /\ wire = <<>>
    /\ now = 0
    /\ stamp = [t \in StampHolders |-> NoStamp]
    /\ shutdown = <<>>
    /\ gen = NotCalled

\* Lines 63 and 68: create_outlet has returned to its caller.
CreateReturned ==
    /\ pc["fg"] = "co_ret"
    /\ co_ctx["fg"] = "call"
    /\ pc' = [pc EXCEPT !["fg"] = "done"]
    /\ UNCHANGED <<pubShared, timer, psLocals, coLocals, secLocals>>
    /\ UNCHANGED <<recvVars, tsVars, shutdown, gen>>

NextCreate ==
    \/ CoTry("fg")
    \/ CoWake("fg")
    \/ CreateReturned
    \/ Tick
    \/ Break
    \/ Mend
    \/ Heal

CreateSpec == CreateCall /\ [][NextCreate]_vars

\* The scheduler runs every thread that can take a step, time passes, and the
\* foreground script keeps issuing events.
FairSpec ==
    /\ Spec
    /\ WF_vars(Tick)
    /\ WF_vars(\E ev \in Events : SendEventCode(ev))
    /\ WF_vars(FgInit \/ FgConstructed \/ StartHb \/ StartupCheck \/ FgChecked)
    /\ WF_vars(SecAfterCode \/ SecAfterDesc \/ SecReturn)
    /\ WF_vars(HbAfterBeat \/ HbWake)
    /\ \A t \in Threads :
        WF_vars(CoTry(t) \/ CoWake(t) \/ PsLock(t) \/ PsSend(t) \/ PsRecovered(t)
                \/ PsRetry(t) \/ PsExit(t))

\* The constructor has returned with handle o, the last successful send is
\* age seconds old, the heartbeat thread is started (line 150) and has
\* hbTimer seconds of its sleep left, and the foreground thread is at fgPc.
Running(o, age, hbTimer, fgPc) ==
    /\ RecvInit
    /\ InLoop
    /\ inbound = <<>>
    /\ outlet = o
    /\ last_success_age = age
    /\ lock = "free"
    /\ env_ok = FALSE
    /\ pc = [t \in Threads |-> IF t = "fg" THEN fgPc ELSE "hb_sleep"]
    /\ timer = [t \in Threads |-> IF t = "hb" THEN hbTimer ELSE 0]
    /\ marker = [t \in Threads |-> <<>>]
    /\ ps_caller = [t \in Threads |-> "none"]
    /\ result = [t \in Threads |-> "none"]
    /\ time_since_last = [t \in Threads |-> -1]
    /\ ps_sends = [t \in Threads |-> 0]
    /\ ps_sent_ok = [t \in Threads |-> FALSE]
    /\ ps_creates = [t \in Threads |-> 0]
    /\ ps_recovered = [t \in Threads |-> "none"]
    /\ co_ctx = [t \in Threads |-> "none"]
    /\ max_attempts = [t \in Threads |-> 0]
    /\ attempt = [t \in Threads |-> 0]
    /\ co_result = [t \in Threads |-> "none"]
    /\ co_tries = [t \in Threads |-> 0]
    /\ co_waits = [t \in Threads |-> 0]
    /\ event = NoEvent
    /\ sec_attempt = 0
    /\ sec_results = <<>>
    /\ success = FALSE
    /\ wire = <<>>
    /\ now = 0
    /\ stamp = [t \in StampHolders |-> NoStamp]
    /\ shutdown = <<>>
    /\ gen = NotCalled

\* The outlet was created by the constructor, the heartbeat thread is started
\* (line 150) and sleeps, and the foreground thread is between two events.
LockInit == Running("live", 0, 0, "idle")

\* The script sends one and the same event again and again, the heartbeat
\* beats, and the transport breaks and mends.
LockNext ==
    \/ SendEventCode([code |-> 900, description |-> SYSTEM_INIT])
    \/ SecAfterCode
    \/ SecAfterDesc
    \/ SecReturn
    \/ HbAfterBeat
    \/ HbWake
    \/ \E t \in Threads : CoTry(t)
    \/ \E t \in Threads : CoWake(t)
    \/ \E t \in Threads : PsLock(t)
    \/ \E t \in Threads : PsSend(t)
    \/ \E t \in Threads : PsRecovered(t)
    \/ \E t \in Threads : PsRetry(t)
    \/ \E t \in Threads : PsExit(t)
    \/ Tick
    \/ Break
    \/ Mend

LockSpec == LockInit /\ [][LockNext]_vars

\* The scheduler runs every thread that can take a step and time passes; a
\* thread that waits for the lock gets it if the lock is free again and
\* again: the script waits between its events and the heartbeat sleeps
\* between its beats.
FairLockSpec ==
    /\ LockSpec
    /\ WF_vars(Tick)
    /\ WF_vars(SecAfterCode \/ SecAfterDesc \/ SecReturn)
    /\ WF_vars(HbAfterBeat \/ HbWake)
    /\ \A t \in Threads :
        /\ WF_vars(CoTry(t) \/ CoWake(t) \/ PsSend(t) \/ PsRecovered(t) \/ PsRetry(t)
                   \/ PsExit(t))
        /\ SF_vars(PsLock(t))

\* --------------------------------------------------------------- shutdown
EXPERIMENT_COMPLETE ==
    <<"E", "X", "P", "E", "R", "I", "M", "E", "N", "T", "_", "C", "O", "M", "P", "L", "E",
      "T", "E">>

\* Line 661: send_event_code(outlet, 999, 'EXPERIMENT_COMPLETE')
Complete == [code |-> 999, description |-> EXPERIMENT_COMPLETE]

\* Line 662: core.wait(1.0)
FinalWait == 1

\* Line 667: keepalive_thread.join(timeout=2.0)
JoinTimeout == 2

\* A shutdown that closes the outlet before anything else.
ShutdownStepsReleaseFirst == <<"release", "send", "wait", "join">>

\* Lines 661-672: the statements of the try block, in their order.
ShutdownSteps == <<"send", "wait", "join", "release">>

\* The statement of the shutdown sequence that comes next; after the last one
\* (and after the except clause) the script closes the window and quits.
NextStep ==
    IF Len(shutdown) < Len(ShutdownSteps) THEN ShutdownSteps[Len(shutdown) + 1] ELSE "quit"

\* How long a statement takes at least, in seconds. send_keepalive never
\* returns, so is_alive() is true and join waits out its timeout.
Duration(step) ==
    CASE step = "wait" -> FinalWait
      [] step = "join" -> JoinTimeout
      [] OTHER -> 0

\* A statement is done and the next one begins.
StepDone(step) ==
    /\ shutdown' = Append(shutdown, step)
    /\ timer' = [timer EXCEPT !["fg"] =
                    IF Len(shutdown) + 1 < Len(ShutdownSteps)
                    THEN Duration(ShutdownSteps[Len(shutdown) + 2]) ELSE 0]

\* The script is at line 658, with any handle, any age of the last successful
\* send and the heartbeat anywhere in its sleep.
ShutdownInit ==
    \E o \in {"None", "live", "broken"}, age \in 0..MaxAge, hbTimer \in 0..KeepaliveInterval :
        Running(o, age, hbTimer, "sd")

\* Lines 661 and 116-123: the final send_event_code is called and calls
\* push_sample(code_str).
ShutdownSend ==
    /\ pc["fg"] = "sd"
    /\ NextStep = "send"
    /\ event' = Complete
    /\ sec_attempt' = 0
    /\ sec_results' = <<>>
    /\ success' = FALSE
    /\ CallPush("fg", CodeStr(Complete.code), "sec_code")
    /\ pc' = [pc EXCEPT !["fg"] = "ps_lock"]
    /\ UNCHANGED <<pubShared, timer, coLocals>>
    /\ UNCHANGED <<recvVars, tsVars, shutdown, gen>>

\* Lines 135 and 661: the final send_event_code returns; its value is dropped.
ShutdownSent ==
    /\ pc["fg"] = "sec_ret"
    /\ event = Complete
    /\ StepDone("send")
    /\ pc' = [pc EXCEPT !["fg"] = "sd"]
    /\ event' = NoEvent
    /\ sec_attempt' = 0
    /\ sec_results' = <<>>
    /\ success' = FALSE
    /\ UNCHANGED <<pubShared, psLocals, coLocals>>
    /\ UNCHANGED <<recvVars, tsVars, gen>>

\* Line 662: core.wait(1.0) is over.
ShutdownWaited ==
    /\ pc["fg"] = "sd"
    /\ NextStep = "wait"
    /\ timer["fg"] = 0
    /\ StepDone("wait")
    /\ UNCHANGED <<pubShared, pc, psLocals, coLocals, secLocals>>
    /\ UNCHANGED <<recvVars, tsVars, gen>>

\* Lines 665-667: the heartbeat thread is alive and join(timeout=2.0) has
\* timed out.
ShutdownJoined ==
    /\ pc["fg"] = "sd"
    /\ NextStep = "join"
    /\ timer["fg"] = 0
    /\ StepDone("join")
    /\ UNCHANGED <<pubShared, pc, psLocals, coLocals, secLocals>>
    /\ UNCHANGED <<recvVars, tsVars, gen>>

\* Line 670: hasattr(outlet, 'outlet') and outlet.outlet
Releasable(o) == o \in {"live", "broken"}

\* Lines 670-673: the handle, if there is one, is deleted, and so is the
\* script's name for the ResilientOutlet (the heartbeat thread keeps its own
\* reference, line 147).
ShutdownRelease ==
    /\ pc["fg"] = "sd"
    /\ NextStep = "release"
    /\ outlet' = IF Releasable(outlet) THEN "deleted" ELSE outlet
    /\ StepDone("release")
    /\ UNCHANGED <<last_success_age, lock, env_ok, wire, pc, psLocals, coLocals,
                   secLocals>>
    /\ UNCHANGED <<recvVars, tsVars, gen>>

\* Lines 679-680: win.close() and core.quit(); the process is over and the
\* daemon thread with it.
ShutdownQuit ==
    /\ pc["fg"] = "sd"
    /\ NextStep = "quit"
    /\ pc' = [t \in Threads |-> "exited"]
    /\ UNCHANGED <<pubShared, timer, psLocals, coLocals, secLocals>>
    /\ UNCHANGED <<recvVars, tsVars, shutdown, gen>>

ShutdownNext ==
    \/ ShutdownSend
    \/ SecAfterCode
    \/ SecAfterDesc
    \/ ShutdownSent
    \/ ShutdownWaited
    \/ ShutdownJoined
    \/ ShutdownRelease
    \/ ShutdownQuit
    \/ HbAfterBeat
    \/ HbWake
    \/ \E t \in Threads : CoTry(t)
    \/ \E t \in Threads : CoWake(t)
    \/ \E t \in Threads : PsLock(t)
    \/ \E t \in Threads : PsSend(t)
    \/ \E t \in Threads : PsRecovered(t)
    \/ \E t \in Threads : PsRetry(t)
    \/ \E t \in Threads : PsExit(t)
    \/ Tick
    \/ Break
    \/ Mend
    \/ Heal

ShutdownSpec == ShutdownInit /\ [][ShutdownNext]_vars

\* ------------------------------------------------- generate_block_sequence

\* part_000:275-290: the contrast of every entry of block_definitions, in the
\* order of the list: four low, four high and the neutral block, whose
\* contrast is None, and the whole list twice. A block is modelled by its
\* contrast, the one field generate_block_sequence reads apart from the type
\* that tells the neutral blocks from the others.
block_definitions ==
    LET once == <<"low", "low", "low", "low", "high", "high", "high", "high", "None">>
    IN  once \o once

\* part_000:385: the blocks whose type is not neutral.
stroop_blocks == SelectSeq(block_definitions, LAMBDA b : b /= "None")

\* How many blocks of a sequence have the contrast c.
CountOf(blocks, c) == Len(SelectSeq(blocks, LAMBDA b : b = c))

\* list.remove: the sequence without its first element equal to b.
RECURSIVE Remove(_, _)
Remove(blocks, b) ==
    IF blocks = <<>> THEN <<>>
    ELSE IF Head(blocks) = b THEN Tail(blocks)
    ELSE <<Head(blocks)>> \o Remove(Tail(blocks), b)

\* part_000:396-402: the blocks of another contrast than the last one, and
\* those of the same contrast while it was placed fewer than two times in a
\* row.
Available(g) ==
    SelectSeq(g.remaining_stroop,
              LAMBDA b : b /= g.last_contrast \/ g.contrast_counter < 2)

\* part_000:404-406: the list random.choice is called with: when no block is
\* available, the blocks of another contrast than the last one.
Candidates(g) ==
    IF Available(g) /= <<>>
    THEN Available(g)
    ELSE SelectSeq(g.remaining_stroop, LAMBDA b : b /= g.last_contrast)

\* part_000:383-392: generate_block_sequence is called and reaches its loop.
GenCall ==
    /\ gen.pc = "idle"
    /\ gen' = [pc |-> "loop", remaining_stroop |-> stroop_blocks,
               shuffled_stroop |-> <<>>, last_contrast |-> "None",
               contrast_counter |-> 0]
    /\ UNCHANGED <<pubShared, pc, timer, psLocals, coLocals, secLocals>>
    /\ UNCHANGED <<recvVars, tsVars, shutdown>>

\* part_000:394-416: one turn of the loop: random.choice returns the block
\* chosen, which is appended, removed from the remaining ones and counted.
GenChoose(chosen) ==
    /\ gen.pc = "loop"
    /\ gen.remaining_stroop /= <<>>
    /\ \E i \in 1..Len(Candidates(gen)) : Candidates(gen)[i] = chosen
    /\ gen' = [pc |-> "loop",
               remaining_stroop |-> Remove(gen.remaining_stroop, chosen),
               shuffled_stroop |-> Append(gen.shuffled_stroop, chosen),
               last_contrast |-> chosen,
               contrast_counter |->
                   IF chosen = gen.last_contrast THEN gen.contrast_counter + 1 ELSE 1]
    /\ UNCHANGED <<pubShared, pc, timer, psLocals, coLocals, secLocals>>
    /\ UNCHANGED <<recvVars, tsVars, shutdown>>

\* part_000:408: random.choice of an empty list raises IndexError, which
\* nothing in generate_block_sequence catches.
GenRaise ==
    /\ gen.pc = "loop"
    /\ gen.remaining_stroop /= <<>>
    /\ Candidates(gen) = <<>>
    /\ gen' = [gen EXCEPT !.pc = "raised"]
    /\ UNCHANGED <<pubShared, pc, timer, psLocals, coLocals, secLocals>>
    /\ UNCHANGED <<recvVars, tsVars, shutdown>>

\* part_000:394 and 418-431: the loop is over; the neutral blocks are put
\* between the others, whose order is kept, and the sequence is returned.
\* Where the neutral blocks go is not tracked.
GenReturn ==
    /\ gen.pc = "loop"
    /\ gen.remaining_stroop = <<>>
    /\ gen' = [gen EXCEPT !.pc = "returned"]
    /\ UNCHANGED <<pubShared, pc, timer, psLocals, coLocals, secLocals>>
    /\ UNCHANGED <<recvVars, tsVars, shutdown>>

\* The script before the experiment, with the subscriber not started.
GenInit == RunInit

GenNext ==
    \/ GenCall
    \/ \E chosen \in {"low", "high"} : GenChoose(chosen)
    \/ GenRaise
    \/ GenReturn

GenSpec == GenInit /\ [][GenNext]_vars

\* ------------------------------------------------------------------ claims
InPush(t) == pc[t] \in {"ps_send", "ps_retry", "ps_exit"}

InRecovery(t) == pc[t] \in {"co_try", "co_sleep", "co_ret"} /\ co_ctx[t] = "recover"

\* Between acquiring and releasing the publisher lock.
InLocked(t) == InPush(t) \/ InRecovery(t)

Returned(t) == pc[t] = "ps_ret"

\* C1: every push_sample call returns a boolean, never an exception, and it
\* returns true exactly when a send of that call succeeded.
C1_PushReturnsBoolean ==
    \A t \in Threads :
        pc[t] \in {"ps_exit", "ps_ret"} =>
            /\ result[t] \in {"true", "false"}
            /\ (result[t] = "true") <=> ps_sent_ok[t]

\* A call whose retry on the re-created handle raised has returned false.
C1_Witness ==
    \E t \in Threads :
        /\ Returned(t)
        /\ result[t] = "false"
        /\ ps_recovered[t] = "true"
        /\ ps_sends[t] = 2

\* C2: at most one thread is between acquiring and releasing the lock, and
\* the lock names it.
C2_MutualExclusion ==
    /\ ~(InLocked("fg") /\ InLocked("hb"))
    /\ \A t \in Threads : InLocked(t) => lock = t

\* The foreground thread waits for the lock while the heartbeat re-creates
\* the transport inside push_sample.
C2_Witness == pc["fg"] = "ps_lock" /\ InRecovery("hb") /\ lock = "hb"

\* C3: after a failed send, create_outlet is invoked exactly when the age of
\* the last success exceeds the recovery threshold, at most once per call,
\* and the send is retried exactly once exactly when re-creation succeeded.
C3_RecoveryOnlyPastThreshold ==
    \A t \in Threads :
        /\ ps_creates[t] <= 1
        /\ ps_sends[t] <= 2
        /\ pc[t] \in {"ps_exit", "ps_ret"} =>
            /\ time_since_last[t] = -1 => ps_creates[t] = 0 /\ ps_sends[t] <= 1
            /\ (time_since_last[t] >= 0 /\ time_since_last[t] <= RecoveryThreshold) =>
                 ps_creates[t] = 0 /\ ps_sends[t] = 1 /\ result[t] = "false"
            /\ time_since_last[t] > RecoveryThreshold =>
                 /\ ps_creates[t] = 1
                 /\ ps_recovered[t] \in {"true", "false"}
                 /\ ps_sends[t] = (IF ps_recovered[t] = "true" THEN 2 ELSE 1)

\* A failing call past the threshold made one recovery and one retry.
C3_Witness ==
    \E t \in Threads :
        /\ Returned(t)
        /\ time_since_last[t] > RecoveryThreshold
        /\ ps_creates[t] = 1
        /\ ps_sends[t] = 2

\* C4: create_outlet(n) makes at most n attempts, returns true at the first
\* success and false after n failures, and sleeps only between attempts.
C4_BoundedCreate ==
    \A t \in Threads :
        /\ pc[t] \in {"co_try", "co_sleep"} =>
            /\ co_result[t] = "none"
            /\ co_tries[t] <= max_attempts[t]
            /\ co_waits[t] <= co_tries[t]
            /\ co_waits[t] = 0 \/ co_waits[t] < max_attempts[t]
        /\ pc[t] = "co_ret" =>
            /\ co_result[t] \in {"true", "false"}
            /\ co_tries[t] <= max_attempts[t]
            /\ co_result[t] = "true" => co_tries[t] >= 1 /\ co_waits[t] = co_tries[t] - 1
            /\ co_result[t] = "false" =>
                 /\ co_tries[t] = max_attempts[t]
                 /\ co_waits[t] = (IF max_attempts[t] = 0 THEN 0 ELSE max_attempts[t] - 1)

\* Every attempt failed: the call returns false after n - 1 sleeps.
C4_Witness ==
    \E t \in Threads :
        /\ pc[t] = "co_ret"
        /\ co_result[t] = "false"
        /\ co_tries[t] = DefaultMaxAttempts
        /\ co_waits[t] = DefaultMaxAttempts - 1
        /\ max_attempts[t] = DefaultMaxAttempts

\* C5: send_event_code returns true only if one of the push_sample calls it
\* issued returned true.
C5_SuccessOnlyIfConfirmed ==
    (pc["fg"] = "sec_ret" /\ success) =>
        \E i \in 1..Len(sec_results) : sec_results[i] = "true"

\* C6: while push_sample returns false send_event_code goes on to a further
\* attempt, so it returns without a confirmed send only after max_retries
\* attempts.
C6_RetriesUntilConfirmed ==
    (pc["fg"] = "sec_ret" /\ \A i \in 1..Len(sec_results) : sec_results[i] /= "true") =>
        sec_attempt = DefaultMaxRetries - 1

\* C7: once creation and sending can succeed, some later push_sample call
\* returns true, whatever state the publisher was in.
C7_NoTerminalFailure ==
    env_ok ~> (\E t \in Threads : Returned(t) /\ result[t] = "true")

\* C8: the sample put on the wire right after a CODE_nnn payload is the
\* description of that code's event, sent by the foreground thread.
C8_CodeThenDescription ==
    (Len(wire) = 2 /\ StartsWith(wire[1].payload, CODE_PREFIX)) =>
        /\ wire[2].by = "fg"
        /\ \E ev \in Events :
            /\ wire[1].payload = CodeStr(ev.code)
            /\ wire[2].payload = ev.description

HbPositions ==
    {"unstarted", "ps_lock", "ps_send", "ps_retry", "ps_exit", "ps_ret", "co_try",
     "co_sleep", "co_ret", "hb_sleep"}

\* C9: the heartbeat thread never leaves its loop, pushes only KEEPALIVE, and
\* after every beat, whatever it returned, sleeps the whole interval before
\* the next one.
C9_HeartbeatLoops ==
    /\ [](/\ pc["hb"] \in HbPositions
          /\ ps_caller["hb"] = "hb" => marker["hb"] = KEEPALIVE)
    /\ [][/\ pc["hb"] = "ps_ret" =>
               \/ pc'["hb"] = "ps_ret"
               \/ pc'["hb"] = "hb_sleep" /\ timer'["hb"] = KeepaliveInterval
          /\ (pc["hb"] /= "ps_lock" /\ pc'["hb"] = "ps_lock") =>
               \/ pc["hb"] = "unstarted"
               \/ pc["hb"] = "hb_sleep" /\ timer["hb"] = 0]_vars

\* The heartbeat sleeps after a beat that returned false.
C9_Witness ==
    /\ pc["hb"] = "hb_sleep"
    /\ result["hb"] = "false"
    /\ timer["hb"] = KeepaliveInterval

\* The CODE record a record at i could pair with: the latest one before it.
LatestCode(i) ==
    IF \E j \in 1..(i - 1) : data[j].marker_type = "CODE"
    THEN CHOOSE j \in 1..(i - 1) :
            /\ data[j].marker_type = "CODE"
            /\ \A k \in (j + 1)..(i - 1) : data[k].marker_type /= "CODE"
    ELSE 0

\* The code of the CODE record at j is still pending when the record at i
\* arrives: it is a code (not the empty string), and no record in between
\* took it.
PendingAt(j, i) ==
    /\ j > 0
    /\ data[j].numeric_code /= <<>>
    /\ \A k \in (j + 1)..(i - 1) : data[k].numeric_code = None

\* C10: a non-CODE record that arrived less than the pairing window after the
\* pending CODE marker carries that marker's code; one that arrived at the
\* window or later, or with no code pending, carries none.
C10_PairingWindow ==
    \A i \in 1..Len(data) :
        data[i].marker_type /= "CODE" =>
            LET j == LatestCode(i)
            IN  IF PendingAt(j, i) /\ data[i].local_time - data[j].local_time < PairingWindow
                THEN data[i].numeric_code = data[j].numeric_code
                ELSE data[i].numeric_code = None

\* trial_start_red arrived 0.05 s after CODE_101 and carries 101.
C10_Witness ==
    /\ Len(data) >= 2
    /\ data[1].marker_content = CODE_101
    /\ data[2].marker_content = TRIAL_START_RED
    /\ data[2].local_time - data[1].local_time = 1
    /\ data[2].numeric_code = <<"1", "0", "1">>

\* The non-CODE records that carry the code of the CODE record at j.
StampedBy(j) ==
    {i \in (j + 1)..Len(data) :
        /\ data[i].marker_type /= "CODE"
        /\ LatestCode(i) = j
        /\ data[i].numeric_code /= None}

\* C11: the code of a CODE marker is on at most one non-CODE record, and once
\* the latest record has taken a code no code is pending.
C11_CodeConsumedOnce ==
    /\ \A j \in 1..Len(data) :
          data[j].marker_type = "CODE" => Cardinality(StampedBy(j)) <= 1
    /\ (/\ Len(data) > 0
        /\ data[Len(data)].marker_type /= "CODE"
        /\ data[Len(data)].numeric_code /= None) => last_code = None

\* CODE_101, then trial_start_red and KEEPALIVE at the same instant: the first
\* took the code, the second, still inside the window, carries none.
C11_Witness ==
    /\ Len(data) = 3
    /\ data[1].marker_content = CODE_101
    /\ data[2].marker_content = TRIAL_START_RED
    /\ data[3].marker_content = KEEPALIVE
    /\ data[3].local_time = data[1].local_time
    /\ data[2].numeric_code = <<"1", "0", "1">>
    /\ data[3].numeric_code = None
    /\ last_code = None

\* The records that carry a numeric code.
Coded == {i \in 1..Len(data) : data[i].numeric_code /= None}

\* C12 as stated: once the four samples are in, exactly two records carry a
\* numeric code, "900" with SYSTEM_INIT and "901" with NIRX_CONNECT.
C12_ExactlyTwoRecords ==
    (inbound = <<>> /\ Len(data) = 4) =>
        /\ Cardinality(Coded) = 2
        /\ \A i \in Coded :
              \/ data[i].numeric_code = <<"9", "0", "0">>
                    /\ data[i].marker_content = SYSTEM_INIT
              \/ data[i].numeric_code = <<"9", "0", "1">>
                    /\ data[i].marker_content = NIRX_CONNECT

\* C12, amended: the four samples give four records in arrival order, the
\* CODE records of CODE_900 and CODE_901 and, after each, the record of its
\* description (SYSTEM_INIT, NIRX_CONNECT) of type SYSTEM stamped with that
\* code; exactly two records are not CODE records.
C12_TwoStampedDescriptions ==
    (inbound = <<>> /\ Len(data) = 4) =>
        /\ [i \in 1..4 |-> data[i].marker_content]
              = <<CodeStr(900), SYSTEM_INIT, CodeStr(901), NIRX_CONNECT>>
        /\ [i \in 1..4 |-> data[i].marker_type] = <<"CODE", "SYSTEM", "CODE", "SYSTEM">>
        /\ [i \in 1..4 |-> data[i].numeric_code]
              = << <<"9", "0", "0">>, <<"9", "0", "0">>, <<"9", "0", "1">>,
                   <<"9", "0", "1">> >>
        /\ Cardinality({i \in 1..4 : data[i].marker_type /= "CODE"}) = 2

\* All four samples are in; NIRX_CONNECT arrived 0.05 s after CODE_901, which
\* arrived 0.5 s after SYSTEM_INIT.
C12_Witness ==
    /\ inbound = <<>>
    /\ Len(data) = 4
    /\ data[3].local_time - data[2].local_time = PulseWait
    /\ data[4].local_time - data[3].local_time = 1
    /\ data[4].numeric_code = <<"9", "0", "1">>

\* int(s), for a string of digits.
RECURSIVE IntOf(_)
IntOf(s) ==
    IF s = <<>> THEN 0
    ELSE 10 * IntOf(SubSeq(s, 1, Len(s) - 1))
           + (CHOOSE d \in 0..9 : Digit(d) = s[Len(s)])

\* The samples of the send, pulled or not yet, in the order of the wire.
Published ==
    [i \in 1..Len(data) |->
        [payload |-> data[i].marker_content, timestamp |-> data[i].timestamp]]
      \o inbound

\* C13: a send of (code, description) with code in 0..999 puts exactly two
\* samples on the wire, CODE_ followed by the three digits of the code, then
\* the description stamped 1 ms later; the record of the first is of type
\* CODE and its numeric_code reads as the code.
C13_EncodeDecode ==
    Published /= <<>> =>
        /\ Len(Published) = 2
        /\ StartsWith(Published[1].payload, CODE_PREFIX)
        /\ Len(Published[1].payload) = Len(CODE_PREFIX) + 3
        /\ Published[2].payload = event.description
        /\ Published[2].timestamp = Published[1].timestamp + 1
        /\ Len(data) >= 1 =>
              /\ data[1].marker_type = "CODE"
              /\ Len(data[1].numeric_code) = 3
              /\ IntOf(data[1].numeric_code) = event.code

\* send_event_code(outlet, 7, 'SYSTEM_INIT'): CODE_007 is decoded to "007",
\* and SYSTEM_INIT follows it.
C13_Witness ==
    /\ event = [code |-> 7, description |-> SYSTEM_INIT]
    /\ Len(data) = 2
    /\ data[1].marker_content = CODE_PREFIX \o <<"0", "0", "7">>
    /\ data[1].numeric_code = <<"0", "0", "7">>
    /\ data[2].marker_content = SYSTEM_INIT

\* The rules of the claim, in its order: rule k matches payload m.
Matches(k, m) ==
    CASE k = 1 -> StartsWith(m, CODE_PREFIX)
      [] k = 2 -> Contains(m, TRIAL_START_)
      [] k = 3 -> Contains(m, RESPONSE_)
      [] k = 4 -> Contains(m, BLOCK_)
      [] k = 5 -> Contains(m, NEUTRAL_BLOCK)
      [] k = 6 -> m = EXPERIMENT_START \/ m = EXPERIMENT_END
      [] k = 7 -> TRUE

RuleCategory == <<"CODE", "TRIAL", "RESPONSE", "BLOCK", "NEUTRAL", "EXPERIMENT", "SYSTEM">>

FirstRule(m) == CHOOSE k \in 1..7 : Matches(k, m) /\ \A j \in 1..(k - 1) : ~Matches(j, m)

\* C14: the category of every record is that of the first rule its payload
\* matches, in the order CODE, TRIAL, RESPONSE, BLOCK, NEUTRAL, EXPERIMENT,
\* SYSTEM, payloads matching several rules included.
C14_FirstMatchingRule ==
    \A i \in 1..Len(data) :
        data[i].marker_type = RuleCategory[FirstRule(data[i].marker_content)]

\* neutral_block_start matches the BLOCK rule and the NEUTRAL rule, and is BLOCK.
C14_Witness ==
    /\ Len(data) = 1
    /\ data[1].marker_content = NEUTRAL_BLOCK_START
    /\ Matches(4, NEUTRAL_BLOCK_START) /\ Matches(5, NEUTRAL_BLOCK_START)
    /\ data[1].marker_type = "BLOCK"

\* A payload that is no tag and has none of the keywords.
Unrecognized(m) == \A k \in 1..6 : ~Matches(k, m)

\* C15: every pull of a sample appends a record of that sample, whatever its
\* payload, and the record of a payload that is no tag and has none of the
\* keywords is of type SYSTEM.
C15_UnrecognizedIsSystem ==
    [][inbound' /= inbound =>
          /\ Len(data') = Len(data) + 1
          /\ SubSeq(data', 1, Len(data)) = data
          /\ data'[Len(data')].marker_content = Head(inbound).payload
          /\ Unrecognized(Head(inbound).payload) =>
                data'[Len(data')].marker_type = "SYSTEM"]_vars

\* KEEPALIVE and the empty payload have each been recorded as SYSTEM.
C15_Witness ==
    /\ Len(data) = 1
    /\ data[1].marker_content \in {KEEPALIVE, <<>>}
    /\ data[1].marker_type = "SYSTEM"
    /\ inbound = <<>>

\* 'correct' occurs in m at a place where it is not the end of 'incorrect'.
CorrectAlone(m) ==
    \E i \in 1..(Len(m) - Len(CORRECT) + 1) :
        /\ SubSeq(m, i, i + Len(CORRECT) - 1) = CORRECT
        /\ ~(i > 2 /\ SubSeq(m, i - 2, i - 1) = <<"i", "n">>)

\* C16: a RESPONSE record has response_correct true exactly when its payload
\* has 'correct' not as part of 'incorrect', and its response_key is the
\* second token of the payload split on '_'.
C16_CorrectExcludesIncorrect ==
    \A i \in 1..Len(data) :
        data[i].marker_type = "RESPONSE" =>
            /\ data[i].response_correct = "True" <=> CorrectAlone(data[i].marker_content)
            /\ Len(Split(data[i].marker_content, "_")) > 1
            /\ data[i].response_key = Split(data[i].marker_content, "_")[2]

\* The operator has interrupted the subscriber.
Interrupted == log /= <<>> /\ log[1] \in {"interrupt", "sysexit"}

IsPrefix(a, b) == Len(a) <= Len(b) /\ SubSeq(b, 1, Len(a)) = a

\* C17: every step of the subscriber (a pull with or without a sample, a
\* fault, a discovery that succeeds, fails or is interrupted, an interrupt,
\* the finalization) leaves the records it had as a prefix of its records.
C17_RecordsOnlyGrow == [][IsPrefix(data, data')]_vars

\* Two records, the second pulled after a re-discovery: the session started
\* later for it than for the first.
C17_Witness ==
    /\ Len(data) = 2
    /\ data[1].local_time - data[1].elapsed_seconds
         < data[2].local_time - data[2].elapsed_seconds
    /\ inlet = "open"

\* C18: save_data never runs twice, and when the process is over after a
\* discovery that had succeeded (the inlet exists) it has run once.
C18_FinalizeOnce ==
    /\ saves <= 1
    /\ (rpc = "exited" /\ inlet /= "None") => saves = 1

\* The operator interrupted the recovery discovery, and the process is over
\* with one save_data.
C18_Witness ==
    /\ rpc = "exited"
    /\ log = <<"sysexit", "flush", "close", "exit">>
    /\ saves = 1
    /\ Len(data) > 0

SavedOnInterrupt == log /= <<>> /\ log[1] = "interrupt" /\ saves > 0

\* C20 as stated: after an interrupt of the loop with N records, the file
\* is written and holds the N records as its rows, in order, for every N.
C20_RowPerRecord == SavedOnInterrupt => (csv.written /\ csv.rows = data)

\* C20, amended: after an interrupt of the loop with N >= 1 records, the file
\* is written and holds the N records as its rows, in order; with no record
\* (N = 0) no file is written.
C20_RowPerRecordIfAny ==
    SavedOnInterrupt =>
        IF Len(data) >= 1
        THEN csv.written /\ csv.rows = data
        ELSE ~csv.written

\* Two records were appended before the interrupt and are the two rows.
C20_Witness ==
    /\ SavedOnInterrupt
    /\ Len(data) = 2
    /\ csv = [written |-> TRUE, rows |-> data]
    /\ data[1] /= data[2]

\* C21: a fault of the pull starts one discovery with timeout 10 and does not
\* end the process; that discovery runs on one clock until it ends; when it
\* finds the stream the loop pulls again from the new inlet with the records
\* it had, and otherwise the loop is left for the finally block, whose
\* save_data has run once the process is over.
C21_FaultRecovery ==
    /\ [][/\ (rpc = "pull" /\ inlet' = "faulted") =>
               /\ rpc' = "recover"
               /\ conn_timeout' = RecoveryTimeout
               /\ conn_elapsed' = 0
               /\ data' = data
          /\ (rpc = "recover" /\ rpc' = "recover") =>
               /\ conn_timeout' = conn_timeout
               /\ conn_elapsed' >= conn_elapsed
               /\ data' = data
          /\ (rpc = "recover" /\ rpc' = "pull") =>
               /\ conn_elapsed < conn_timeout
               /\ inlet' = "open"
               /\ data' = data
          /\ (rpc = "recover" /\ rpc' \notin {"recover", "pull"}) =>
               /\ rpc' = "finally1"
               /\ data' = data]_vars
    /\ []((rpc = "exited" /\ log /= <<>> /\ log[1] = "lost") =>
            (saves = 1 /\ log = <<"lost", "flush", "close", "exit">>))

\* A record was pulled, the pull faulted, the recovery ran out of time, and
\* the record is in the file.
C21_Witness ==
    /\ rpc = "exited"
    /\ log = <<"lost", "flush", "close", "exit">>
    /\ Len(data) > 0
    /\ csv.rows = data

\* C22: connect_to_stream ends; when it ends at the pull it has made the
\* inlet and started the session at that instant; while time is left a turn
\* that finds nothing or raises leads to the next turn with more time spent;
\* once no time is left it returns at its next step, with the inlet and the
\* session start as they were.
C22_ConnectTerminates ==
    /\ Connecting ~> ~Connecting
    /\ [][/\ (Connecting /\ rpc' = "pull") =>
               /\ conn_elapsed < conn_timeout
               /\ inlet' = "open"
               /\ session_start' = clock
          /\ (Connecting /\ Connecting') =>
               /\ rpc' = rpc
               /\ inlet' = inlet
               /\ session_start' = session_start
               /\ conn_elapsed' /= conn_elapsed =>
                     (conn_elapsed < conn_timeout /\ conn_elapsed' > conn_elapsed)
          /\ (Connecting /\ conn_elapsed >= conn_timeout /\ rpc' /= rpc) =>
               /\ rpc' = AfterConnectFails(rpc)
               /\ inlet' = inlet
               /\ session_start' = session_start]_vars

\* The recovery discovery has spent 7 s finding nothing and 1 s on an error,
\* and is still running after a session that started later than time 0.
C22_Witness ==
    /\ rpc = "recover"
    /\ conn_elapsed = ResolveTimeout + RetrySleep + ErrorSleep
    /\ inlet = "faulted"
    /\ Len(data) > 0

\* Thread t is reading the handle or creating it: the foreground thread at
\* the test of line 157, any thread inside create_outlet, any thread at the
\* send of push_sample.
TouchesHandle(t) ==
    \/ t = "fg" /\ pc[t] = "check"
    \/ pc[t] \in {"co_try", "co_sleep"}
    \/ pc[t] \in {"ps_send", "ps_retry"}

\* C23: once the heartbeat thread is started, a thread that reads, creates or
\* re-creates the handle holds the lock.
C23_HandleUnderLock ==
    \A t \in Threads :
        (pc["hb"] /= "unstarted" /\ TouchesHandle(t)) => lock = t

\* C24: the timestamps of the samples on the wire never decrease along the
\* order of the wire.
C24_StampsNonDecreasing ==
    \A i, j \in 1..Len(inbound) :
        i < j => inbound[i].timestamp <= inbound[j].timestamp

\* C25: no sample on the wire has an empty payload.
C25_PayloadNonEmpty ==
    \A i \in 1..Len(inbound) : inbound[i].payload /= <<>>

\* What follows the prefix CODE_ in the payload m.
Suffix(m) == SubSeq(m, Len(CODE_PREFIX) + 1, Len(m))

\* C26: a non-CODE record with a numeric_code carries the code of the latest
\* CODE record before it, which arrived less than the pairing window earlier;
\* the numeric_code of a CODE record is what follows CODE_ in its payload;
\* and a CODE marker replaces the cached code and its arrival time by its own.
C26_PairedWithLatestCode ==
    /\ \A i \in 1..Len(data) :
          IF data[i].marker_type = "CODE"
          THEN data[i].numeric_code = Suffix(data[i].marker_content)
          ELSE data[i].numeric_code /= None =>
                 LET j == LatestCode(i)
                 IN  /\ j > 0
                     /\ data[i].numeric_code = data[j].numeric_code
                     /\ data[i].local_time - data[j].local_time < PairingWindow
    /\ (Len(data) > 0 /\ data[Len(data)].marker_type = "CODE") =>
          /\ last_code = data[Len(data)].numeric_code
          /\ last_code_time = data[Len(data)].local_time

\* The cached code is stale: its window has passed.
Stale == last_code /= None /\ ~WithinWindow(clock - last_code_time)

\* A record of a marker that is not a CODE marker is appended.
AppendsNonCode ==
    /\ Len(data') = Len(data) + 1
    /\ data'[Len(data')].marker_type /= "CODE"

\* C27: while the cached code is stale, a non-CODE marker gets no numeric_code
\* and leaves the cached code and its arrival time as they were, and only a
\* CODE marker changes them.
C27_StaleCodeKept ==
    [][Stale =>
          /\ AppendsNonCode =>
                /\ data'[Len(data')].numeric_code = None
                /\ UNCHANGED <<last_code, last_code_time>>
          /\ ~UNCHANGED <<last_code, last_code_time>> =>
                /\ Len(data') = Len(data) + 1
                /\ data'[Len(data')].marker_type = "CODE"
                /\ last_code' = data'[Len(data')].numeric_code]_vars

\* trial_start_red arrived 0.1 s after CODE_101: it carries no code and 101 is
\* still cached, with its arrival time.
C27_Witness ==
    /\ Len(data) = 2
    /\ data[1].marker_content = CODE_101
    /\ data[2].marker_content = TRIAL_START_RED
    /\ data[2].local_time - data[1].local_time = PairingWindow
    /\ data[2].numeric_code = None
    /\ last_code = <<"1", "0", "1">>
    /\ last_code_time = data[1].local_time

\* s ends with suffix.
EndsWith(s, suffix) ==
    /\ Len(s) >= Len(suffix)
    /\ SubSeq(s, Len(s) - Len(suffix) + 1, Len(s)) = suffix

\* C28: the trial_color of a TRIAL record whose payload ends with one of the
\* four colours is that trailing colour, and the trial_color of a TRIAL record
\* whose payload contains none of them is None.
C28_TrailingColor ==
    \A i \in 1..Len(data) :
        data[i].marker_type = "TRIAL" =>
            LET m == data[i].marker_content
            IN  /\ (\E c \in 1..Len(Colors) : EndsWith(m, Colors[c])) =>
                      EndsWith(m, data[i].trial_color)
                /\ (\A c \in 1..Len(Colors) : ~Contains(m, Colors[c])) =>
                      data[i].trial_color = None

\* C29: a pull that returns no sample appends no record, leaves the cached
\* code, its arrival time, the inlet and the session start as they were,
\* starts no discovery, and the loop takes its next turn.
C29_EmptyPullNoEffect ==
    [][(~idle /\ idle') =>
          /\ UNCHANGED <<data, last_code, last_code_time, inlet, session_start>>
          /\ UNCHANGED <<conn_timeout, conn_elapsed, saves, log>>
          /\ rpc = "pull"
          /\ rpc' = "pull"]_vars

\* An empty pull came while a code was pending after a record, and the code
\* is still pending.
C29_Witness ==
    /\ idle
    /\ rpc = "pull"
    /\ Len(data) > 0
    /\ last_code /= None

\* C30 as stated: once save_data has run, the summary is printed, with the
\* ratio when there is a RESPONSE record and "No responses recorded"
\* otherwise.
C30_SummaryOnEveryFinalize ==
    saves > 0 =>
        /\ summary.printed
        /\ summary.accuracy[1] =
              (IF OfType(data, "RESPONSE") /= <<>>
               THEN "Accuracy" ELSE "No responses recorded")

\* C30: once save_data has run, the summary is printed exactly if there is a
\* record; it reports the ratio correct/total, with total at least 1, when
\* there is a RESPONSE record and "No responses recorded" otherwise.
C30_SummaryIfAnyRecord ==
    saves > 0 =>
        /\ summary.printed <=> data /= <<>>
        /\ summary.printed =>
              LET responses == OfType(data, "RESPONSE")
              IN  summary.accuracy =
                    (IF Len(responses) >= 1
                     THEN <<"Accuracy", Correct(responses), Len(responses)>>
                     ELSE <<"No responses recorded">>)

\* save_data has run on records none of which is a RESPONSE, and it has
\* printed the summary.
C30_Witness ==
    /\ saves > 0
    /\ data /= <<>>
    /\ OfType(data, "RESPONSE") = <<>>
    /\ summary.printed
    /\ summary.accuracy = <<"No responses recorded">>

FinalPublishFirst == <<"send", "wait", "join", "release">>

\* C32: the shutdown sequence does its steps in the order final publish,
\* waits, release; the final publish is a send_event_code of code 999 that
\* has made its push_sample calls; the waits are bounded and waited out; the
\* handle is deleted by the release step only, after the other three; and
\* the script quits only after all four steps, whatever the publish returned.
C32_ShutdownOrder ==
    /\ [](/\ IsPrefix(shutdown, FinalPublishFirst)
          /\ outlet = "deleted" => shutdown = FinalPublishFirst
          /\ pc["fg"] = "exited" => shutdown = FinalPublishFirst
          /\ (pc["fg"] = "sd" /\ NextStep \in {"wait", "join"}) => timer["fg"] <= JoinTimeout)
    /\ [][/\ (shutdown = <<>> /\ shutdown' /= <<>>) =>
               /\ pc["fg"] = "sec_ret"
               /\ event = Complete
               /\ Len(sec_results) >= 2
          /\ (Len(shutdown) \in {1, 2} /\ shutdown' /= shutdown) => timer["fg"] = 0
          /\ (outlet' = "deleted" /\ outlet /= "deleted") =>
               /\ shutdown = SubSeq(FinalPublishFirst, 1, 3)
               /\ shutdown' = FinalPublishFirst]_vars

\* The final publish returned False twice, on a broken transport, and the
\* sequence has gone on to delete the handle.
C32_Witness ==
    /\ shutdown = FinalPublishFirst
    /\ outlet = "deleted"
    /\ pc["fg"] = "sd"
    /\ wire = <<>>

\* C33: once the release step of the shutdown sequence is done, no sample is
\* put on the wire and no handle is created.
C33_NoSendAfterRelease ==
    [][(Len(shutdown) = Len(ShutdownSteps) /\ pc["fg"] /= "exited") =>
          /\ wire' = wire
          /\ outlet' = outlet]_vars

\* C34: the records mirror the samples pulled: every sample pull_sample has
\* returned has exactly one record, in the order of the pulls, and the
\* record carries the sample's raw payload and its timestamp.
C34_RecordsMirrorPulls ==
    /\ Len(data) = Len(pulled)
    /\ \A i \in 1..Len(data) :
          i <= Len(pulled) =>
            /\ data[i].marker_content = pulled[i].payload
            /\ data[i].timestamp = pulled[i].timestamp

\* Lines 58-67 and 75, 88, 97, 102-108: the keys of a record: the eight of the
\* dictionary literal, and marker_type.
RecordFields ==
    {"timestamp", "local_time", "elapsed_seconds", "marker_content", "numeric_code",
     "trial_color", "response_key", "response_correct", "marker_type"}

\* C35: every record, whatever branch of process_marker made it, has the same
\* nine fields, so the header save_data takes from the first record fits
\* every row.
C35_SameNineFields ==
    /\ Cardinality(RecordFields) = 9
    /\ \A i \in 1..Len(data) :
          /\ DOMAIN data[i] = RecordFields
          /\ DOMAIN data[i] = DOMAIN data[1]

\* A code record, a TRIAL record and a RESPONSE record in one sequence.
C35_Witness ==
    /\ Len(data) = 3
    /\ data[1].marker_type = "CODE"
    /\ data[2].marker_type = "TRIAL"
    /\ data[3].marker_type = "RESPONSE"

\* C36: elapsed_seconds is measured from one session start for the whole run:
\* it never decreases along the records, also when a record follows a fault
\* and a successful re-discovery.
C36_ElapsedNonDecreasing ==
    \A i, j \in 1..Len(data) :
        i < j => data[i].elapsed_seconds <= data[j].elapsed_seconds

\* C37: every trial-start description of the script, in either format, gets
\* a TRIAL record and every response description a RESPONSE record, so the
\* trial count of the summary counts every trial start received.
C37_TrialStartsCounted ==
    /\ \A i \in 1..Len(data) :
          /\ data[i].marker_content \in TrialStarts => data[i].marker_type = "TRIAL"
          /\ data[i].marker_content \in Responses => data[i].marker_type = "RESPONSE"
    /\ Summary(data).trials >=
          Cardinality({i \in 1..Len(data) : data[i].marker_content \in TrialStarts})

\* C38: generate_block_sequence returns for every sequence of random choices:
\* random.choice always has a candidate, the sequence returned holds every
\* block that is not neutral exactly once, and no three blocks in a row of it
\* have the same contrast.
C38_BlockSequenceGenerated ==
    /\ gen.pc /= "raised"
    /\ (gen.pc = "loop" /\ gen.remaining_stroop /= <<>>) => Candidates(gen) /= <<>>
    /\ gen.pc = "returned" =>
          /\ Len(gen.shuffled_stroop) = 16
          /\ \A c \in {"low", "high"} :
                CountOf(gen.shuffled_stroop, c) = CountOf(stroop_blocks, c)
    /\ \A i \in 1..(Len(gen.shuffled_stroop) - 2) :
          ~(/\ gen.shuffled_stroop[i] = gen.shuffled_stroop[i + 1]
            /\ gen.shuffled_stroop[i + 1] = gen.shuffled_stroop[i + 2])

====
